---- MODULE Spec2Model ----
(***************************************************************************)
(* A model of the testflow step-interpretation and execution pipeline:     *)
(*   - the validation oracle (AIInterpreter.validate_expected_result and   *)
(*     ValidationService.validate_expected_result),                        *)
(*   - the rule-based step interpreters (backend/server.py, main.py and    *)
(*     TestExecutionService._rule_based_interpret) and the AI path         *)
(*     (AIInterpreter.interpret_multiple_steps),                           *)
(*   - the browser session (PlaywrightHandler.execute_action),             *)
(*   - the orchestrator (execute_test_background), its cancellation and    *)
(*     the process shutdown,                                               *)
(*   - the progress broadcast (ConnectionManager),                         *)
(*   - two runs sharing the class-level browser session,                   *)
(*   - the console/error log buffer of the session.                        *)
(*                                                                         *)
(* Python dicts are functions whose domain is the set of keys present;     *)
(* d.get(k) is modelled by Has(d, k) and d[k].  Confidence values are      *)
(* integers in tenths (1.0 = 10, 0.5 = 5).  Page and expected texts are    *)
(* sequences of characters; step instructions are sequences of HTML        *)
(* parser events (tags and words).                                         *)
(***************************************************************************)
EXTENDS Integers, Sequences, FiniteSets, TLC

VARIABLES
    vPc,        \* validation call: "ready" | "done"
    vImpl,      \* which oracle was called: "none" | "ai_interpreter" | "validation_service"
    vEnabled,   \* ai_interpreter.enabled
    vExpected,  \* expected_result argument (HTML events)
    vPage,      \* page_content argument (text, or None)
    vRsp,       \* what the AI provider answered in this call
    vOut,       \* outcome of the call
    iPc,        \* interpretation pass: "loop" | "returned" | "raised"
    iImpl,      \* "server" | "main" | "service" | "ai"
    iSteps,     \* the steps consumed so far, in order
    iActions,   \* playwright_actions / interpreted_actions
    iBaseUrl,   \* base_url (rule-based) / context["base_url"] (AI)
    hSession,   \* PlaywrightHandler's class attributes
    hCall,      \* the last handle_action_async call and what it returned
    hCount,     \* number of calls made
    rPc,        \* execute_test_background: "start" | "fetched" | "executing" | "complete" | "error" | "crashed" | "cancelled"; "shutdown" once the process has shut down
    rEnabled,   \* ai_interpreter.enabled
    rSteps,     \* steps
    rActions,   \* playwright_actions
    rIdx,       \* loop iterations of the execution loop completed
    rPassed,    \* passed_steps
    rFailed,    \* failed_steps
    rRun,       \* the test_runs row of this run
    rStepRows,  \* the test_steps rows created, in order
    rShotRows,  \* the screenshots rows created, in order
    rProgress,  \* the progress messages sent, in order
    rLast,      \* what the last loop iteration saw
    rApiKey,    \* ai_interpreter.api_key (NoKey when no credentials are configured)
    rFetch,     \* testrail_result
    rCause,     \* the call whose exception reached the except clause ("none" if none did)
    rAICalls,   \* requests sent to the AI provider during the run
    active_connections,  \* ConnectionManager.active_connections
    bPc,        \* broadcast: "idle" | "sending" (suspended in send_json)
    bIdx,       \* position of the list iterator of the broadcast loop
    bCur,       \* the connection the suspended send_json writes to (0 when idle)
    bPresent,   \* connections in the list since the broadcast began
    bAttempted, \* connections send_json was called on in this broadcast
    bFailed,    \* connections whose send_json raised in this broadcast
    bCount,     \* broadcasts begun
    sPc,        \* per concurrent run: "none" | "act" | "snapshot" | "done"
    sIdx,       \* per concurrent run: loop iterations completed
    sPage,      \* what PlaywrightHandler._page shows: <<run, step>> of the last action
    sSeen,      \* per concurrent run: what each validation snapshot read
    logs,       \* PlaywrightHandler._logs: the list of entries (references to dicts)
    lObjects,   \* the entry dicts created so far: what each holds
    lReturned,  \* the list the last get_logs returned, as its caller holds it
    fCase,      \* test_case, the fetched test case the steps are picked from
    fSteps      \* steps, once picked

valVars == <<vPc, vImpl, vEnabled, vExpected, vPage, vRsp, vOut>>
interpVars == <<iPc, iImpl, iSteps, iActions, iBaseUrl>>
handlerVars == <<hSession, hCall, hCount>>

runVars == <<rPc, rEnabled, rSteps, rActions, rIdx, rPassed, rFailed, rRun,
            rStepRows, rShotRows, rProgress, rLast, rApiKey, rFetch, rCause, rAICalls>>

broadcastVars == <<active_connections, bPc, bIdx, bCur, bPresent, bAttempted, bFailed,
                  bCount>>
sharedVars == <<sPc, sIdx, sPage, sSeen>>
logVars == <<logs, lObjects, lReturned>>
pickVars == <<fCase, fSteps>>

notValVars == <<interpVars, handlerVars, runVars, broadcastVars, sharedVars, logVars, pickVars>>
notInterpVars == <<valVars, handlerVars, runVars, broadcastVars, sharedVars, logVars, pickVars>>
notHandlerVars == <<valVars, interpVars, runVars, broadcastVars, sharedVars, logVars, pickVars>>
notRunVars == <<valVars, interpVars, hCount, broadcastVars, sharedVars, logVars, pickVars>>
notBroadcastVars == <<valVars, interpVars, handlerVars, runVars, sharedVars, logVars, pickVars>>
notSharedVars == <<valVars, interpVars, handlerVars, runVars, broadcastVars, logVars, pickVars>>
notLogVars == <<valVars, interpVars, handlerVars, runVars, broadcastVars, sharedVars, pickVars>>
notPickVars == <<valVars, interpVars, handlerVars, runVars, broadcastVars, sharedVars, logVars>>

vars == <<vPc, vImpl, vEnabled, vExpected, vPage, vRsp, vOut,
          iPc, iImpl, iSteps, iActions, iBaseUrl,
          hSession, hCall, hCount,
          rPc, rEnabled, rSteps, rActions, rIdx, rPassed, rFailed, rRun,
          rStepRows, rShotRows, rProgress, rLast, rApiKey, rFetch, rCause, rAICalls,
          active_connections, bPc, bIdx, bCur, bPresent, bAttempted, bFailed, bCount,
          sPc, sIdx, sPage, sSeen, logs, lObjects, lReturned, fCase, fSteps>>

(***************************************************************************)
(* Bounds                                                                  *)
(***************************************************************************)
MaxExpLen == 2
MaxPageLen == 2
MaxSteps == 2

(***************************************************************************)
(* Texts                                                                   *)
(***************************************************************************)
Chars == {"a", "A", "b", " "}

\* Python None where a str is expected
None == <<"None">>

RECURSIVE TextsUpTo(_)
TextsUpTo(n) ==
    IF n = 0 THEN {<<>>}
    ELSE LET shorter == TextsUpTo(n - 1)
         IN shorter \cup {Append(t, c) : t \in {s \in shorter : Len(s) = n - 1}, c \in Chars}

\* str.lower() on one character
LowerChar(c) == IF c = "A" THEN "a" ELSE IF c = "B" THEN "b" ELSE c

\* str.lower()
Lower(s) == [i \in 1..Len(s) |-> LowerChar(s[i])]

IsSpace(c) == c = " "

RECURSIVE LStrip(_)
LStrip(s) == IF s # <<>> /\ IsSpace(Head(s)) THEN LStrip(Tail(s)) ELSE s

RECURSIVE RStrip(_)
RStrip(s) ==
    IF s # <<>> /\ IsSpace(s[Len(s)]) THEN RStrip(SubSeq(s, 1, Len(s) - 1)) ELSE s

\* str.strip()
Strip(s) == RStrip(LStrip(s))

\* needle in hay
Contains(needle, hay) ==
    \E i \in 0..(Len(hay) - Len(needle)) : SubSeq(hay, i + 1, i + Len(needle)) = needle

(***************************************************************************)
(* HTML as the HTMLParser sees it: a sequence of events, each a tag or a   *)
(* run of character data.                                                  *)
(***************************************************************************)
Data(t) == [tag |-> FALSE, data |-> t]
TagBr == [tag |-> TRUE, data |-> <<>>]

RECURSIVE JoinSpace(_)
\* ' '.join(chunks)
JoinSpace(chunks) ==
    IF chunks = <<>> THEN <<>>
    ELSE IF Len(chunks) = 1 THEN chunks[1]
    ELSE chunks[1] \o <<" ">> \o JoinSpace(Tail(chunks))

RECURSIVE DataChunks(_)
\* HTMLStripper.text after feed(): the data events, in order
DataChunks(html) ==
    IF html = <<>> THEN <<>>
    ELSE IF Head(html).tag THEN DataChunks(Tail(html))
    ELSE <<Head(html).data>> \o DataChunks(Tail(html))

\* ' '.join(stripper.text).strip()
strip_html(html) == Strip(JoinSpace(DataChunks(html)))

\* raw.strip() is non-empty: the raw string holds a tag or a non-blank character
RawNonBlank(html) == \E i \in 1..Len(html) : html[i].tag \/ Strip(html[i].data) # <<>>

\* the raw string of a tag-free text
PlainOf(html) == JoinSpace(DataChunks(html))

(***************************************************************************)
(* Dicts                                                                   *)
(***************************************************************************)
Has(d, k) == k \in DOMAIN d
Restrict(d, K) == [k \in K |-> d[k]]

(***************************************************************************)
(* Validation oracle                                                       *)
(***************************************************************************)
ConfFull == 10
ConfFound == 5
ConfNotFound == 3
ConfAIError == 3
ConfSimple == 8
ConfAI == 9

Returned(d, calls) == [raised |-> FALSE, ret |-> d, ai_calls |-> calls]
Raised(calls) == [raised |-> TRUE, ret |-> <<>>, ai_calls |-> calls]

\* What the provider can answer to a judgment request.
AIObjectKeys == {"passed", "confidence", "message"}
AIValidationResponses ==
    {[kind |-> k, obj |-> <<>>] : k \in {"call_error", "not_json", "not_object"}}
    \cup {[kind |-> "object",
           obj |-> Restrict([passed |-> p, confidence |-> ConfAI, message |-> "ai judgment"], K)]
          : p \in BOOLEAN, K \in SUBSET AIObjectKeys}

\* a substring match that forgets to fold case
SubstringMatch_CaseSensitive(expected_result, page_content) ==
    Contains(Strip(expected_result), Strip(page_content))

\* expected_clean in page_clean (ai_interpreter.py 194-196 and 276-278)
SubstringMatch(expected_result, page_content) ==
    Contains(Lower(Strip(expected_result)), Lower(Strip(page_content)))

\* AIInterpreter.validate_expected_result, not self.enabled
RuleBasedValidation(expected_result, page_content) ==
    IF page_content = None THEN Raised(0)
    ELSE LET passed == SubstringMatch(expected_result, page_content)
         IN Returned([passed |-> passed,
                      confidence |-> IF passed THEN ConfFound ELSE ConfNotFound,
                      message |-> IF passed THEN "Expected result validated successfully"
                                  ELSE "Expected result not found",
                      reasoning |-> "Rule-based validation (simple substring match)"], 0)

\* AIInterpreter.validate_expected_result, except Exception branch
AIErrorFallback(expected_result, page_content, calls) ==
    IF page_content = None THEN Raised(calls)
    ELSE Returned([passed |-> SubstringMatch(expected_result, page_content),
                   confidence |-> ConfAIError,
                   message |-> "AI validation error, used fallback",
                   reasoning |-> "Fallback to substring match due to AI error"], calls)

\* AIInterpreter.validate_expected_result
AIInterpreter_validate_expected_result(enabled, rsp, expected_result, page_content) ==
    IF ~enabled THEN RuleBasedValidation(expected_result, page_content)
    ELSE IF page_content = None
         THEN AIErrorFallback(expected_result, page_content, 0)   \* page_content[:4000] raises
    ELSE IF rsp.kind = "object" /\ Has(rsp.obj, "confidence")
         THEN Returned(rsp.obj, 1)
    ELSE AIErrorFallback(expected_result, page_content, 1)

\* ValidationService._simple_validation
simple_validation(expected_text, page_content) ==
    IF page_content = None THEN Raised(0)
    ELSE IF Contains(Lower(expected_text), Lower(page_content))
         THEN Returned([passed |-> TRUE, confidence |-> ConfSimple,
                        message |-> "Found", reasoning |-> "Simple substring match"], 0)
    ELSE Returned([passed |-> FALSE, confidence |-> ConfSimple,
                   message |-> "Not found", reasoning |-> "Simple substring match failed"], 0)

\* ValidationService.validate_expected_result
ValidationService_validate_expected_result(enabled, rsp, expected_result, page_content) ==
    IF ~RawNonBlank(expected_result)
    THEN Returned([passed |-> TRUE, confidence |-> ConfFull,
                   message |-> "No validation required",
                   reasoning |-> "No expected result specified"], 0)
    ELSE LET expected_text == strip_html(expected_result)
             ai == AIInterpreter_validate_expected_result(enabled, rsp, expected_text, page_content)
             simple == simple_validation(expected_text, page_content)
         IN IF enabled /\ ~ai.raised THEN ai
            ELSE IF enabled
                 THEN [simple EXCEPT !.ai_calls = ai.ai_calls]
            ELSE simple

(***************************************************************************)
(* Step instructions.  A step's content is the sequence of events the      *)
(* HTMLParser delivers for it: words of character data (runs of whitespace *)
(* between them collapsed to one space), quoted phrases, words that are    *)
(* URLs or paths, <a href> tags and <img src> tags.  A URL is the triple   *)
(* scheme://host/path; the empty string (and None) is NoUrl.               *)
(***************************************************************************)
NoUrl == [scheme |-> "", host |-> "", path |-> <<>>]
UrlA == [scheme |-> "http", host |-> "example.test", path |-> <<"login">>]
UrlB == [scheme |-> "https", host |-> "other.test", path |-> <<>>]
UrlNoHost == [scheme |-> "http", host |-> "", path |-> <<"x">>]
UrlRel == [scheme |-> "", host |-> "", path |-> <<"abp", "sub">>]
UrlWww == [scheme |-> "", host |-> "www.example.test", path |-> <<"home">>]
UrlImg == [scheme |-> "http", host |-> "cdn.test", path |-> <<"i.png">>]

Word(t) == [kind |-> "word", text |-> t, url |-> NoUrl]
Quoted(t) == [kind |-> "quoted", text |-> t, url |-> NoUrl]
UrlWord(u) == [kind |-> "url", text |-> "", url |-> u]
Anchor(u) == [kind |-> "a", text |-> "", url |-> u]
Img(u) == [kind |-> "img", text |-> "", url |-> u]

IsData(e) == e.kind \in {"word", "quoted", "url"}

\* str.lower() on a word
LowerWord(t) ==
    CASE t = "Navigate" -> "navigate"
      [] t = "OPEN" -> "open"
      [] t = "Go to" -> "go to"
      [] t = "Click" -> "click"
      [] t = "Select" -> "select"
      [] OTHER -> t

\* keyword in word (substring test on one lower-cased word)
KeywordIn(keyword, t) == t = keyword \/ <<t, keyword>> \in {<<"reopen", "open">>}

\* any(keyword in text for keyword in keywords), text a sequence of data events
HasKeyword(events, keywords, lowered) ==
    \E i \in 1..Len(events) : \E k \in keywords :
        /\ events[i].kind = "word"
        /\ KeywordIn(k, IF lowered THEN LowerWord(events[i].text) ELSE events[i].text)

\* url.startswith('http')
StartsWithHttp(u) == u.scheme \in {"http", "https"}

\* re.match(r'(https?://[^/]+)', url).group(1), NoUrl when there is no match
BaseMatch(u) ==
    IF StartsWithHttp(u) /\ u.host # "" THEN [u EXCEPT !.path = <<>>] ELSE NoUrl

\* the events of `events` that satisfy Keep, in order
RECURSIVE SelectEvents(_, _)
SelectEvents(events, kinds) ==
    IF events = <<>> THEN <<>>
    ELSE IF Head(events).kind \in kinds
         THEN <<Head(events)>> \o SelectEvents(Tail(events), kinds)
    ELSE SelectEvents(Tail(events), kinds)

\* ' '.join(stripper.text).strip()
CleanText(content) == SelectEvents(content, {"word", "quoted", "url"})

\* stripper.links
Links(content) ==
    LET anchors == SelectEvents(content, {"a"})
    IN [i \in 1..Len(anchors) |-> anchors[i].url]

\* re.search(r'https?://[^\s<>"]+', step_text) on the raw step text
RawUrlSearch(content) ==
    LET hits == {i \in 1..Len(content) :
                    /\ StartsWithHttp(content[i].url)
                    /\ (content[i].url.host # "" \/ content[i].url.path # <<>>)}
    IN IF hits = {} THEN NoUrl
       ELSE content[CHOOSE i \in hits : \A j \in hits : i <= j].url

\* re.search(r'https?://[^\s<>"]+|www\.[^\s<>"]+', content) (services)
RawUrlOrWwwSearch(content) ==
    LET hits == {i \in 1..Len(content) :
                    \/ /\ StartsWithHttp(content[i].url)
                       /\ (content[i].url.host # "" \/ content[i].url.path # <<>>)
                    \/ content[i].url = UrlWww}
    IN IF hits = {} THEN NoUrl
       ELSE content[CHOOSE i \in hits : \A j \in hits : i <= j].url

\* re.search(r'/[a-zA-Z0-9_-]+', clean_text).group(): the first path segment
PathSearch(clean) ==
    LET hits == {i \in 1..Len(clean) : clean[i].url.path # <<>>}
    IN IF hits = {} THEN <<>>
       ELSE <<clean[CHOOSE i \in hits : \A j \in hits : i <= j].url.path[1]>>

\* base_url.rstrip('/') + path
JoinBase(base_url, path) == [base_url EXCEPT !.path = base_url.path \o path]

\* the characters the pattern [`"'] matches, each written as a name
Delimiters == {"BACKTICK", "QUOTE", "APOSTROPHE"}

\* the text of one data event, cut at its delimiters: a quoted phrase stands
\* between two quotes, the word user's holds an apostrophe
Pieces(e) ==
    CASE e.kind = "quoted" -> <<"QUOTE", e.text, "QUOTE">>
      [] e.text = "user's" -> <<"user", "APOSTROPHE", "s">>
      [] OTHER -> <<e.text>>

\* ' '.join(stripper.text).strip(), cut at the delimiters
RECURSIVE Characters(_)
Characters(clean) ==
    IF clean = <<>> THEN <<>>
    ELSE IF Len(clean) = 1 THEN Pieces(clean[1])
    ELSE Pieces(clean[1]) \o <<" ">> \o Characters(Tail(clean))

RECURSIVE Joined(_)
Joined(pieces) == IF pieces = <<>> THEN "" ELSE pieces[1] \o Joined(Tail(pieces))

\* re.search(r'[`"\']([^`"\']+)[`"\']', clean_text).group(1), "" when no match:
\* the text between the first delimiter that has a delimiter after it, with
\* at least one other character between them, and that next delimiter; the
\* two delimiters need not be the same character
QuotedSearch(clean) ==
    LET cs == Characters(clean)
        NextDelimiter(p) ==
            CHOOSE q \in p + 1..Len(cs) :
                /\ cs[q] \in Delimiters
                /\ \A j \in p + 1..q - 1 : cs[j] \notin Delimiters
        opens == {p \in 1..Len(cs) :
                    /\ cs[p] \in Delimiters
                    /\ \E q \in p + 2..Len(cs) :
                          /\ cs[q] \in Delimiters
                          /\ \A j \in p + 1..q - 1 : cs[j] \notin Delimiters}
    IN IF opens = {} THEN ""
       ELSE LET p == CHOOSE i \in opens : \A j \in opens : i <= j
            IN Joined(SubSeq(cs, p + 1, NextDelimiter(p) - 1))

WaitTimeout == 1000

WaitAction(description, expected) ==
    [action |-> "wait", params |-> [timeout |-> WaitTimeout],
     description |-> description, expected |-> expected]

NavigateAction(url, description, expected) ==
    [action |-> "navigate", params |-> [url |-> url],
     description |-> description, expected |-> expected]

ClickAction(text, description, expected) ==
    [action |-> "click", params |-> [text |-> text],
     description |-> description, expected |-> expected]

NavKeywords == {"navigate", "open", "go to"}
ClickKeywords == {"click", "select"}

\* a resolution that looks for a URL in the text before it looks at the links
ResolveUrl_TextFirst(content, base_url) ==
    LET links == Links(content)
        url_match == RawUrlSearch(SelectEvents(content, {"word", "quoted", "url"}))
        path_match == PathSearch(CleanText(content))
    IN IF url_match # NoUrl THEN url_match
       ELSE IF links # <<>> THEN links[1]
       ELSE IF path_match # <<>>
            THEN IF base_url # NoUrl THEN JoinBase(base_url, path_match)
                 ELSE [NoUrl EXCEPT !.path = path_match]
       ELSE NoUrl

\* URL resolution of a navigation step (server.py 431-452, main.py 258-273)
ResolveUrl(content, base_url) ==
    LET links == Links(content)
        url_match == RawUrlSearch(content)
        path_match == PathSearch(CleanText(content))
    IN IF links # <<>> THEN links[1]
       ELSE IF url_match # NoUrl THEN url_match
       ELSE IF path_match # <<>>
            THEN IF base_url # NoUrl THEN JoinBase(base_url, path_match)
                 ELSE [NoUrl EXCEPT !.path = path_match]
       ELSE NoUrl

\* a base_url update that overwrites on every absolute navigation
NextBaseUrl_Overwrite(base_url, url) ==
    IF StartsWithHttp(url) /\ BaseMatch(url) # NoUrl THEN BaseMatch(url) ELSE base_url

\* "Save base URL from first navigation" (server.py 456-460, ai_interpreter.py 142-149)
NextBaseUrl(base_url, url) ==
    IF base_url = NoUrl /\ StartsWithHttp(url) /\ BaseMatch(url) # NoUrl
    THEN BaseMatch(url) ELSE base_url

\* a navigation branch that emits navigate whatever the resolved url
NavigationBranch_NoUrlCheck(url, description, expected) ==
    <<NavigateAction(url, description, expected)>>

\* if url: navigate else: wait (server.py 454-476)
NavigationBranch(url, description, expected) ==
    IF url # NoUrl THEN <<NavigateAction(url, description, expected)>>
    ELSE <<WaitAction(description, expected)>>

\* One iteration of the rule-based loop of execute_test_background: the
\* actions appended for `step` and the base_url after it.
ServerRuleStep(step, base_url) ==
    LET clean == CleanText(step.content)
        url == ResolveUrl(step.content, base_url)
    IN IF HasKeyword(clean, NavKeywords, TRUE)
       THEN [actions |-> NavigationBranch(url, clean, step.expected),
             base_url |-> IF url # NoUrl THEN NextBaseUrl(base_url, url) ELSE base_url]
       ELSE IF HasKeyword(clean, ClickKeywords, TRUE)
            THEN [actions |-> IF QuotedSearch(clean) # ""
                              THEN <<ClickAction(QuotedSearch(clean), clean, step.expected)>>
                              ELSE <<WaitAction(clean, step.expected)>>,
                  base_url |-> base_url]
       ELSE [actions |-> <<WaitAction(clean, step.expected)>>, base_url |-> base_url]

\* One iteration of the rule-based loop of handle_test_execution (main.py):
\* the same rules, the actions carry no expected result.
MainRuleStep(step, base_url) ==
    LET r == ServerRuleStep(step, base_url)
    IN [r EXCEPT !.actions = [i \in 1..Len(r.actions) |->
                                 Restrict(r.actions[i], {"action", "params", "description"})]]

\* One iteration of TestExecutionService._rule_based_interpret: keywords are
\* looked up in the raw content, and a step that matches nothing appends nothing.
ServiceRuleStep(step, base_url) ==
    LET content == step.content
        url_match == RawUrlOrWwwSearch(content)
    IN [actions |->
            IF HasKeyword(content, {"navigate", "go to"}, TRUE)
            THEN IF url_match # NoUrl
                 THEN <<NavigateAction(url_match, content, step.expected)>>
                 ELSE <<>>
            ELSE IF HasKeyword(content, {"click"}, TRUE)
                 THEN <<WaitAction(content, step.expected)>>
            ELSE <<>>,
        base_url |-> base_url]

(***************************************************************************)
(* AI interpretation (AIInterpreter.interpret_step / interpret_multiple_   *)
(* steps).  A provider answer is a call failure or unparsable text, or a   *)
(* JSON object; params may be absent or null.                              *)
(***************************************************************************)
NullParams == [null |-> TRUE]

AIInterpretResponses ==
    {[kind |-> "call_error", obj |-> <<>>], [kind |-> "not_json", obj |-> <<>>]}
    \cup {[kind |-> "object", obj |-> o] : o \in
            {[action |-> "navigate", params |-> [url |-> UrlA], confidence |-> ConfAI],
             [action |-> "navigate", params |-> [url |-> UrlB], confidence |-> ConfAI],
             [action |-> "navigate", params |-> [url |-> UrlRel], confidence |-> ConfAI],
             [action |-> "navigate", params |-> NullParams, confidence |-> ConfAI],
             [action |-> "navigate", confidence |-> ConfAI],
             [action |-> "click", params |-> [text |-> "Sign In"], confidence |-> ConfAI],
             [action |-> "fill", params |-> [value |-> "x"], confidence |-> ConfAI],
             [action |-> "wait", params |-> [timeout |-> WaitTimeout], confidence |-> ConfAI]}}

\* AIInterpreter.interpret_step: the action dict, or <<>> for None
interpret_step(step, rsp) ==
    IF rsp.kind # "object" THEN <<>>
    ELSE [k \in DOMAIN rsp.obj \cup {"expected", "original_step"} |->
            IF k = "expected" THEN step.expected
            ELSE IF k = "original_step" THEN step.content
            ELSE rsp.obj[k]]

\* the fallback wait action of interpret_multiple_steps (ai_interpreter.py 163-170)
AIFallbackAction(step) ==
    [action |-> "wait", params |-> [timeout |-> WaitTimeout], expected |-> step.expected,
     original_step |-> step.content, confidence |-> 0,
     reasoning |-> "AI interpretation failed, fallback action"]

\* One iteration of interpret_multiple_steps: raised is TRUE when
\* action.get("params", {}).get("url", "") raises (params is null).
AIStep(step, rsp, base_url) ==
    LET action == interpret_step(step, rsp)
        params == IF Has(action, "params") THEN action.params ELSE <<>>
        url == IF Has(params, "url") THEN params.url ELSE NoUrl
    IN IF action = <<>>
       THEN [raised |-> FALSE, actions |-> <<AIFallbackAction(step)>>, base_url |-> base_url]
       ELSE IF action.action = "navigate" /\ base_url = NoUrl
            THEN IF Has(params, "null")
                 THEN [raised |-> TRUE, actions |-> <<>>, base_url |-> base_url]
                 ELSE [raised |-> FALSE, actions |-> <<action>>,
                       base_url |-> NextBaseUrl(base_url, url)]
       ELSE [raised |-> FALSE, actions |-> <<action>>, base_url |-> base_url]


(***************************************************************************)
(* Browser session (PlaywrightHandler).  The class attributes _playwright, *)
(* _browser, _context, _page hold an object id (0 for None); created       *)
(* counts the objects made so far.  The outcome of every Playwright call   *)
(* made during one execute_action is given by env.                         *)
(***************************************************************************)
NetworkIdleTimeout == 30000
DomContentLoadedTimeout == 10000
SettleDelay == 500
FixedDelay == 1000
ClickSettleTimeout == 5000
WaitDefaultTimeout == 5000

NoSession ==
    [playwright |-> 0, browser |-> 0, context |-> 0, page |-> 0,
     screenshot_dir |-> FALSE, is_headless |-> TRUE, created |-> 0]

Call(op, arg) == [op |-> op, arg |-> arg]
NoPath == <<>>
EmptyParams == [k \in {} |-> ""]

Merge(d1, d2) ==
    [k \in DOMAIN d1 \cup DOMAIN d2 |-> IF k \in DOMAIN d2 THEN d2[k] ELSE d1[k]]

\* params.get(k, default)
Get(params, k, default) == IF Has(params, k) THEN params[k] ELSE default

\* an error text: the parameters it names and the rest of the sentence
ErrorMsg(names, text) == [names |-> names, text |-> text]

\* one `if cls._x is None: cls._x = await ...` of initialize_browser
InitResource(r, field, fail) ==
    IF ~r.ok \/ r.session[field] # 0 THEN r
    ELSE IF fail = field THEN [r EXCEPT !.ok = FALSE]
    ELSE [r EXCEPT !.session = [@ EXCEPT ![field] = r.session.created + 1,
                                         !.created = @ + 1]]

\* an initialisation that starts a new engine, browser, context and page on
\* every call
initialize_browser_Relaunch(s, headless, fail) ==
    [session |-> [s EXCEPT !.playwright = s.created + 1, !.browser = s.created + 2,
                           !.context = s.created + 3, !.page = s.created + 4,
                           !.created = @ + 4, !.is_headless = headless,
                           !.screenshot_dir = TRUE],
     ok |-> TRUE]

\* PlaywrightHandler.initialize_browser(headless, browser_type); fail names the
\* resource whose creation raises ("none": every creation succeeds).
\* _is_headless is stored just before a browser is launched.
initialize_browser(s, headless, fail) ==
    LET p == InitResource([session |-> s, ok |-> TRUE], "playwright", fail)
        stored == IF p.ok /\ s.browser = 0
                  THEN [p EXCEPT !.session.is_headless = headless] ELSE p
        r == InitResource(InitResource(InitResource(stored,
                 "browser", fail), "context", fail), "page", fail)
    IN IF r.ok THEN [r EXCEPT !.session.screenshot_dir = TRUE] ELSE r

\* one `if cls._x: await cls._x.close(); cls._x = None` of close_browser
CloseResource(r, field, op, fail) ==
    IF ~r.ok \/ r.session[field] = 0 THEN r
    ELSE IF fail = field
         THEN [r EXCEPT !.ok = FALSE, !.trace = Append(@, Call(op, 0))]
    ELSE [r EXCEPT !.session = [@ EXCEPT ![field] = 0], !.trace = Append(@, Call(op, 0))]

\* PlaywrightHandler.close_browser; fail names the resource whose release
\* raises ("none": every release succeeds)
close_browser(s, fail) ==
    CloseResource(CloseResource(CloseResource(CloseResource(
        [session |-> s, ok |-> TRUE, trace |-> <<>>],
        "page", "page.close", fail), "context", "context.close", fail),
        "browser", "browser.close", fail), "playwright", "playwright.stop", fail)

\* PlaywrightHandler.take_screenshot
take_screenshot(s, step_name, outcome) ==
    IF s.page # 0 /\ s.screenshot_dir
    THEN [raised |-> outcome # "ok", class |-> outcome, path |-> <<step_name>>,
          trace |-> <<Call("screenshot", 0)>>]
    ELSE [raised |-> FALSE, class |-> "ok", path |-> NoPath, trace |-> <<>>]

\* an entry point that lets the exception through to its caller
Escaped_Reraise(s, trace) ==
    [session |-> s, trace |-> trace, escaped |-> TRUE, result |-> [raised |-> TRUE]]

\* handle_action_async's own except: the exception left execute_action
Escaped(s, trace) ==
    [session |-> s, trace |-> trace, escaped |-> TRUE,
     result |-> [error |-> ErrorMsg({}, "Playwright execution error")]]

\* except clauses that return the failure without a screenshot
ExceptHandler_NoScreenshot(s, action, class, trace, env) ==
    [session |-> s, trace |-> trace, escaped |-> FALSE,
     result |-> [error |-> ErrorMsg({}, IF class = "timeout"
                                        THEN "Timeout error during action"
                                        ELSE "Error during action"),
                 screenshot |-> NoPath]]

\* the except clauses of execute_action (PlaywrightTimeoutError, Exception)
ExceptHandler(s, action, class, trace, env) ==
    LET shot == take_screenshot(s,
                    <<IF class = "timeout" THEN "timeout_error" ELSE "error", action>>,
                    env.error_screenshot)
    IN IF shot.raised THEN Escaped(s, trace \o shot.trace)
       ELSE [session |-> s, trace |-> trace \o shot.trace, escaped |-> FALSE,
             result |-> [error |-> ErrorMsg({}, IF class = "timeout"
                                                THEN "Timeout error during action"
                                                ELSE "Error during action"),
                         screenshot |-> shot.path]]

\* result.get("success") is truthy
Succeeded(result) == Has(result, "success") /\ result.success = TRUE

\* return {"error": ...} without a screenshot
ErrorReturn(s, trace, error) ==
    [session |-> s, trace |-> trace, escaped |-> FALSE, result |-> [error |-> error]]

\* return {"success": True, "action": action, ...}
SuccessReturn(s, action, fields, trace) ==
    [session |-> s, trace |-> trace, escaped |-> FALSE,
     result |-> Merge(fields, [success |-> TRUE, action |-> action])]

\* a navigation wait strategy that gives up when dom-content-loaded fails
NavigateWaits_NoFixedDelay(env) ==
    LET tier1 == <<Call("goto", NetworkIdleTimeout)>>
                 \o (IF env.goto = "ok" THEN <<Call("wait_for_timeout", SettleDelay)>> ELSE <<>>)
        tier2 == <<Call("wait_for_load_state", DomContentLoadedTimeout)>>
                 \o (IF env.load_state = "ok"
                     THEN <<Call("wait_for_timeout", SettleDelay)>> ELSE <<>>)
    IN IF env.goto = "ok" /\ env.delay = "ok" THEN [class |-> "ok", trace |-> tier1]
       ELSE IF env.load_state = "ok" /\ env.delay = "ok"
            THEN [class |-> "ok", trace |-> tier1 \o tier2]
       ELSE [class |-> "timeout", trace |-> tier1 \o tier2]

\* a navigation that goes through its three waits whatever the earlier ones did
NavigateWaits_AllTiers(env) ==
    [class |-> IF env.delay = "ok" THEN "ok" ELSE "error",
     trace |-> <<Call("goto", NetworkIdleTimeout),
                 Call("wait_for_load_state", DomContentLoadedTimeout),
                 Call("wait_for_timeout", FixedDelay)>>]

\* the three wait tiers of navigate
NavigateWaits(env) ==
    LET tier1 == <<Call("goto", NetworkIdleTimeout)>>
                 \o (IF env.goto = "ok" THEN <<Call("wait_for_timeout", SettleDelay)>> ELSE <<>>)
        tier2 == <<Call("wait_for_load_state", DomContentLoadedTimeout)>>
                 \o (IF env.load_state = "ok"
                     THEN <<Call("wait_for_timeout", SettleDelay)>> ELSE <<>>)
        tier3 == <<Call("wait_for_timeout", FixedDelay)>>
    IN IF env.goto = "ok" /\ env.delay = "ok" THEN [class |-> "ok", trace |-> tier1]
       ELSE IF env.load_state = "ok" /\ env.delay = "ok"
            THEN [class |-> "ok", trace |-> tier1 \o tier2]
       ELSE [class |-> IF env.delay = "ok" THEN "ok" ELSE "error",
             trace |-> tier1 \o tier2 \o tier3]

\* every Playwright call of an action succeeds
DefaultEnv ==
    [init |-> "none", goto |-> "ok", load_state |-> "ok", primitive |-> "ok",
     settle |-> "ok", delay |-> "ok", screenshot |-> "ok", title |-> "ok",
     error_screenshot |-> "ok", element |-> "found", text |-> <<>>, fallback |-> "ok",
     close |-> "none"]

\* params.get(k) is truthy, for a url parameter and for a string parameter
HasUrl(params) == Has(params, "url") /\ params.url # NoUrl
HasStr(params, k) == Has(params, k) /\ params[k] # ""

NoError == ErrorMsg({}, "")

\* parameter checks whose select check looks at the selector only
MissingParam_SelectorOnly(action, params) ==
    CASE action = "navigate" /\ ~HasUrl(params)
            -> ErrorMsg({"url"}, "is required for navigate action")
      [] action = "click" /\ ~HasStr(params, "selector") /\ ~HasStr(params, "text")
            -> ErrorMsg({"selector", "text"}, "Either is required for click action")
      [] action = "fill" /\ ~HasStr(params, "selector")
            -> ErrorMsg({"selector"}, "is required for fill action")
      [] action = "type" /\ ~HasStr(params, "selector")
            -> ErrorMsg({"selector"}, "is required for type action")
      [] action = "select" /\ ~HasStr(params, "selector")
            -> ErrorMsg({"selector", "value"}, "are required for select action")
      [] action = "hover" /\ ~HasStr(params, "selector")
            -> ErrorMsg({"selector"}, "is required for hover action")
      [] action = "press_key" /\ ~HasStr(params, "key")
            -> ErrorMsg({"key"}, "is required for press_key action")
      [] OTHER -> NoError

\* the `if not ...: return {"error": ...}` checks of execute_action: the error
\* text, NoError when the action goes on
MissingParam(action, params) ==
    CASE action = "navigate" /\ ~HasUrl(params)
            -> ErrorMsg({"url"}, "is required for navigate action")
      [] action = "click" /\ ~HasStr(params, "selector") /\ ~HasStr(params, "text")
            -> ErrorMsg({"selector", "text"}, "Either is required for click action")
      [] action = "fill" /\ ~HasStr(params, "selector")
            -> ErrorMsg({"selector"}, "is required for fill action")
      [] action = "type" /\ ~HasStr(params, "selector")
            -> ErrorMsg({"selector"}, "is required for type action")
      [] action = "select" /\ (~HasStr(params, "selector") \/ ~HasStr(params, "value"))
            -> ErrorMsg({"selector", "value"}, "are required for select action")
      [] action = "hover" /\ ~HasStr(params, "selector")
            -> ErrorMsg({"selector"}, "is required for hover action")
      [] action = "press_key" /\ ~HasStr(params, "key")
            -> ErrorMsg({"key"}, "is required for press_key action")
      [] OTHER -> NoError

\* the Playwright calls of an action up to its screenshot, and how they end
ActionBody(action, params, env) ==
    CASE action = "navigate" -> NavigateWaits(env)
      [] action = "click" ->
            LET prim == <<Call(IF HasStr(params, "text") THEN "get_by_text.click"
                               ELSE "click", 0)>>
                settle == <<Call("wait_for_load_state", ClickSettleTimeout)>>
            IN IF env.primitive # "ok" THEN [class |-> env.primitive, trace |-> prim]
               ELSE IF env.settle = "ok" THEN [class |-> "ok", trace |-> prim \o settle]
               ELSE [class |-> IF env.delay = "ok" THEN "ok" ELSE "error",
                     trace |-> prim \o settle \o <<Call("wait_for_timeout", SettleDelay)>>]
      [] action = "wait" ->
            IF HasStr(params, "selector")
            THEN [class |-> env.primitive,
                  trace |-> <<Call("wait_for_selector", Get(params, "timeout", WaitDefaultTimeout))>>]
            ELSE [class |-> env.delay,
                  trace |-> <<Call("wait_for_timeout", Get(params, "timeout", WaitDefaultTimeout))>>]
      [] action = "select" ->
            [class |-> env.primitive, trace |-> <<Call("select_option", 0)>>]
      [] action = "press_key" ->
            [class |-> env.primitive, trace |-> <<Call("keyboard.press", 0)>>]
      [] OTHER -> [class |-> env.primitive, trace |-> <<Call(action, 0)>>]

\* the action-specific fields of a success result
ResultFields(action, params) ==
    CASE action = "navigate" -> [url |-> Get(params, "url", None)]
      [] action = "click" ->
            [selector |-> IF HasStr(params, "selector") THEN params.selector
                          ELSE <<"text=", Get(params, "text", None)>>]
      [] action = "fill" -> [selector |-> Get(params, "selector", None),
                             value |-> Get(params, "value", "")]
      [] action = "type" -> [selector |-> Get(params, "selector", None),
                             text |-> Get(params, "text", "")]
      [] action = "select" -> [selector |-> Get(params, "selector", None),
                               value |-> Get(params, "value", None)]
      [] action = "wait" -> [timeout |-> Get(params, "timeout", WaitDefaultTimeout),
                             selector |-> Get(params, "selector", None)]
      [] action = "hover" -> [selector |-> Get(params, "selector", None)]
      [] action = "press_key" -> [key |-> Get(params, "key", None)]

ScreenshotActions ==
    {"navigate", "click", "fill", "type", "select", "wait", "hover", "press_key"}

\* the branch of execute_action for the action, on the session s1 that
\* initialize_browser left
ExecuteBranch(s1, action, params, env) ==
    LET missing == MissingParam(action, params)
    IN IF missing # NoError THEN ErrorReturn(s1, <<>>, missing)
       ELSE IF action \in ScreenshotActions
            THEN LET body == ActionBody(action, params, env)
                     shot == take_screenshot(s1, <<action, params>>, env.screenshot)
                     title == IF action = "navigate" THEN <<Call("title", 0)>> ELSE <<>>
                 IN IF body.class # "ok"
                    THEN ExceptHandler(s1, action, body.class, body.trace, env)
                    ELSE IF shot.raised
                         THEN ExceptHandler(s1, action, shot.class, body.trace \o shot.trace, env)
                    ELSE IF action = "navigate" /\ env.title # "ok"
                         THEN ExceptHandler(s1, action, "error",
                                            body.trace \o shot.trace \o title, env)
                    ELSE SuccessReturn(s1, action,
                             Merge(ResultFields(action, params), [screenshot |-> shot.path]),
                             body.trace \o shot.trace \o title)
       ELSE IF action = "get_text"
            THEN IF env.primitive # "ok"
                 THEN ExceptHandler(s1, action, env.primitive, <<Call("query_selector", 0)>>, env)
                 ELSE IF env.element = "none"
                      THEN ErrorReturn(s1, <<Call("query_selector", 0)>>,
                                       ErrorMsg({}, "Element not found"))
                 ELSE SuccessReturn(s1, action,
                          [selector |-> Get(params, "selector", "body"), text |-> env.text],
                          <<Call("query_selector", 0), Call("text_content", 0)>>)
       ELSE IF action = "get_page_content_for_validation"
            THEN IF env.primitive = "ok"
                 THEN SuccessReturn(s1, action,
                          [page_data |-> [visible_text |-> env.text, form_fields |-> <<>>,
                                          dropdowns |-> <<>>, labels |-> <<>>,
                                          buttons |-> <<>>]],
                          <<Call("evaluate", 0)>>)
                 ELSE IF env.fallback # "ok"
                      THEN ExceptHandler(s1, action, env.fallback,
                                         <<Call("evaluate", 0), Call("text_content", 0)>>, env)
                 ELSE SuccessReturn(s1, action, [page_data |-> [visible_text |-> env.text]],
                                    <<Call("evaluate", 0), Call("text_content", 0)>>)
       ELSE IF action = "close_browser"
            THEN LET closed == close_browser(s1, env.close)
                 IN IF closed.ok
                    THEN SuccessReturn(closed.session, action, EmptyParams, closed.trace)
                    ELSE ExceptHandler(closed.session, action, "error", closed.trace, env)
       ELSE ErrorReturn(s1, <<>>, ErrorMsg({}, "Unknown action"))

\* execute_action once initialize_browser has returned or raised
AfterInitialize(init, action, params, env) ==
    IF ~init.ok THEN ExceptHandler(init.session, action, "error", <<>>, env)
    ELSE ExecuteBranch(init.session, action, params, env)

\* PlaywrightHandler.execute_action as called by PlaywrightApp.handle_action_async
execute_action(s, action, params, env) ==
    IF params = NullParams            \* params.get raises on None
    THEN ExceptHandler(s, action, "error", <<>>, env)
    ELSE AfterInitialize(IF action = "close_browser" THEN [session |-> s, ok |-> TRUE]
                         ELSE initialize_browser(s, Get(params, "headless", TRUE), env.init),
                         action, params, env)

(***************************************************************************)
(* Validation calls                                                        *)
(***************************************************************************)
ExpectedTexts == TextsUpTo(MaxExpLen)
PageTexts == TextsUpTo(MaxPageLen) \cup {None}

ExpectedInputs ==
    {<<>>} \cup {<<Data(t)>> : t \in ExpectedTexts \ {<<>>}}
    \cup {<<TagBr>>} \cup {<<TagBr, Data(t)>> : t \in ExpectedTexts \ {<<>>}}

TagFree(html) == \A i \in 1..Len(html) : ~html[i].tag

NoOut == [raised |-> FALSE, ret |-> <<>>, ai_calls |-> 0]
NoRsp == [kind |-> "none", obj |-> <<>>]

ValidateIdle ==
    /\ vPc = "idle" /\ vImpl = "none" /\ vEnabled = FALSE /\ vExpected = <<>>
    /\ vPage = <<>> /\ vRsp = NoRsp /\ vOut = NoOut

InterpIdle ==
    /\ iPc = "idle" /\ iImpl = "none" /\ iSteps = <<>> /\ iActions = <<>>
    /\ iBaseUrl = NoUrl

NoCall ==
    [action |-> "none", params |-> EmptyParams, env |-> DefaultEnv, before |-> NoSession,
     result |-> EmptyParams, trace |-> <<>>, escaped |-> FALSE,
     follows_param_error |-> FALSE]

HandlerIdle ==
    /\ hSession = NoSession /\ hCall = NoCall /\ hCount = 0

NoRun == [status |-> "none", end_time |-> FALSE, total_steps |-> 0, passed_steps |-> 0,
          failed_steps |-> 0]
NoKey == ""
NotFetched == [not_fetched |-> TRUE]
NoIteration ==
    [success |-> FALSE, has_validation |-> FALSE, validation_passed |-> FALSE,
     page_source |-> "none", reasoning |-> "", raised |-> "none"]

RunIdle ==
    /\ rPc = "idle" /\ rEnabled = FALSE /\ rSteps = <<>> /\ rActions = <<>> /\ rIdx = 0
    /\ rPassed = 0 /\ rFailed = 0 /\ rRun = NoRun /\ rStepRows = <<>> /\ rShotRows = <<>>
    /\ rProgress = <<>> /\ rLast = NoIteration
    /\ rApiKey = NoKey /\ rFetch = NotFetched /\ rCause = "none" /\ rAICalls = 0

Runs == {1, 2}
NoPage == <<0, 0>>

BroadcastIdle ==
    /\ active_connections = <<>> /\ bPc = "idle" /\ bIdx = 0 /\ bCur = 0
    /\ bPresent = {} /\ bAttempted = {} /\ bFailed = {} /\ bCount = 0

SharedIdle ==
    /\ sPc = [run \in Runs |-> "none"] /\ sIdx = [run \in Runs |-> 0]
    /\ sPage = NoPage /\ sSeen = [run \in Runs |-> <<>>]

NotRead == [read |-> FALSE, list |-> <<>>]
LogsIdle == logs = <<>> /\ lObjects = <<>> /\ lReturned = NotRead

NotPicked == [picked |-> FALSE, steps |-> <<>>]
PickIdle == fCase = [title |-> "T"] /\ fSteps = NotPicked

InitValidate ==
    /\ BroadcastIdle
    /\ SharedIdle
    /\ LogsIdle
    /\ PickIdle
    /\ InterpIdle
    /\ HandlerIdle
    /\ RunIdle
    /\ vPc = "ready"
    /\ vImpl = "none"
    /\ vEnabled \in BOOLEAN
    /\ vExpected \in ExpectedInputs
    /\ vPage \in PageTexts
    /\ vRsp = NoRsp
    /\ vOut = NoOut

\* ai_interpreter.validate_expected_result(expected_result, page_content, context)
CallAIInterpreterValidate ==
    /\ vPc = "ready"
    /\ TagFree(vExpected)
    /\ \E rsp \in AIValidationResponses :
          /\ vRsp' = (IF vEnabled /\ vPage # None THEN rsp ELSE NoRsp)
          /\ vOut' = AIInterpreter_validate_expected_result(vEnabled, rsp, PlainOf(vExpected), vPage)
    /\ vImpl' = "ai_interpreter"
    /\ vPc' = "done"
    /\ UNCHANGED <<vEnabled, vExpected, vPage>>
    /\ UNCHANGED notValVars

\* validation_service.validate_expected_result(expected_result, page_content, context)
CallValidationServiceValidate ==
    /\ vPc = "ready"
    /\ \E rsp \in AIValidationResponses :
          /\ vRsp' = (IF vEnabled /\ vPage # None /\ RawNonBlank(vExpected) THEN rsp ELSE NoRsp)
          /\ vOut' = ValidationService_validate_expected_result(vEnabled, rsp, vExpected, vPage)
    /\ vImpl' = "validation_service"
    /\ vPc' = "done"
    /\ UNCHANGED <<vEnabled, vExpected, vPage>>
    /\ UNCHANGED notValVars

NextValidate ==
    \/ CallAIInterpreterValidate
    \/ CallValidationServiceValidate

SpecValidate == InitValidate /\ [][NextValidate]_vars

(***************************************************************************)
(* Interpretation passes.  The step list is consumed front to back, one    *)
(* loop iteration per action; the pass may return after any iteration (the *)
(* list ends there).                                                       *)
(***************************************************************************)
KeywordWords == {Word("Navigate"), Word("OPEN"), Word("Go to"), Word("Click"), Word("verify")}
TargetEvents ==
    {UrlWord(UrlA), UrlWord(UrlB), UrlWord(UrlRel), Quoted("Sign In"),
     Anchor(UrlB), Anchor(NoUrl)}

StepContents ==
    {<<>>} \cup {<<k>> : k \in KeywordWords}
    \cup {<<k, t>> : k \in KeywordWords, t \in TargetEvents}
    \cup {<<Word("Select"), Quoted("Sign In")>>,
          <<Word("reopen")>>,
          <<Word("Navigate"), UrlWord(UrlWww)>>,
          <<Word("Navigate"), UrlWord(UrlNoHost)>>,
          <<Word("Navigate"), Img(UrlImg)>>,
          <<Word("Navigate"), Word("Click"), Quoted("Sign In")>>,
          <<Word("Click"), Word("user's"), Quoted("Save")>>,
          <<Word("Navigate"), UrlWord(UrlA), Anchor(UrlB)>>,
          <<Word("Navigate"), UrlWord(UrlRel), UrlWord(UrlA)>>,
          <<Word("Navigate"), Anchor(NoUrl), UrlWord(UrlA)>>}

ExpectedSome == <<Data(<<"a">>)>>

StepPool ==
    {[content |-> c, expected |-> <<>>] : c \in StepContents}
    \cup {[content |-> <<Word("Navigate"), UrlWord(UrlA)>>, expected |-> ExpectedSome]}

AIStepPool ==
    {[content |-> <<Word("Navigate"), UrlWord(UrlA)>>, expected |-> ExpectedSome],
     [content |-> <<Word("verify")>>, expected |-> <<>>]}

InitInterp ==
    /\ BroadcastIdle
    /\ SharedIdle
    /\ LogsIdle
    /\ PickIdle
    /\ ValidateIdle
    /\ HandlerIdle
    /\ RunIdle
    /\ iPc = "loop"
    /\ iImpl \in {"server", "main", "service", "ai"}
    /\ iSteps = <<>>
    /\ iActions = <<>>
    /\ iBaseUrl = NoUrl

\* one iteration of `for idx, step in enumerate(steps)` in execute_test_background
ServerRuleIterate ==
    /\ iPc = "loop" /\ iImpl = "server" /\ Len(iSteps) < MaxSteps
    /\ \E step \in StepPool :
          LET r == ServerRuleStep(step, iBaseUrl)
          IN /\ iSteps' = Append(iSteps, step)
             /\ iActions' = iActions \o r.actions
             /\ iBaseUrl' = r.base_url
    /\ UNCHANGED <<iPc, iImpl>>
    /\ UNCHANGED notInterpVars

\* one iteration of the rule-based loop of handle_test_execution
MainRuleIterate ==
    /\ iPc = "loop" /\ iImpl = "main" /\ Len(iSteps) < MaxSteps
    /\ \E step \in StepPool :
          LET r == MainRuleStep(step, iBaseUrl)
          IN /\ iSteps' = Append(iSteps, step)
             /\ iActions' = iActions \o r.actions
             /\ iBaseUrl' = r.base_url
    /\ UNCHANGED <<iPc, iImpl>>
    /\ UNCHANGED notInterpVars

\* one iteration of `for step in steps` in _rule_based_interpret
ServiceRuleIterate ==
    /\ iPc = "loop" /\ iImpl = "service" /\ Len(iSteps) < MaxSteps
    /\ \E step \in StepPool :
          LET r == ServiceRuleStep(step, iBaseUrl)
          IN /\ iSteps' = Append(iSteps, step)
             /\ iActions' = iActions \o r.actions
             /\ iBaseUrl' = r.base_url
    /\ UNCHANGED <<iPc, iImpl>>
    /\ UNCHANGED notInterpVars

\* one iteration of `for idx, step in enumerate(steps)` in interpret_multiple_steps
AIIterate ==
    /\ iPc = "loop" /\ iImpl = "ai" /\ Len(iSteps) < MaxSteps
    /\ \E step \in AIStepPool, rsp \in AIInterpretResponses :
          LET r == AIStep(step, rsp, iBaseUrl)
          IN /\ iSteps' = Append(iSteps, step)
             /\ iActions' = iActions \o r.actions
             /\ iBaseUrl' = r.base_url
             /\ iPc' = IF r.raised THEN "raised" ELSE "loop"
    /\ UNCHANGED iImpl
    /\ UNCHANGED notInterpVars

\* the loop ends: the pass returns its action list
InterpretReturn ==
    /\ iPc = "loop" /\ iSteps # <<>>
    /\ iPc' = "returned"
    /\ UNCHANGED <<iImpl, iSteps, iActions, iBaseUrl>>
    /\ UNCHANGED notInterpVars

NextInterp ==
    \/ ServerRuleIterate
    \/ MainRuleIterate
    \/ ServiceRuleIterate
    \/ AIIterate
    \/ InterpretReturn

SpecInterp == InitInterp /\ [][NextInterp]_vars

(***************************************************************************)
(* Browser session calls: a sequence of handle_action_async calls, one at  *)
(* a time, against the class-level session.                                *)
(***************************************************************************)
MaxCalls == 3

ResourceFields == {"playwright", "browser", "context", "page"}
OkOrTimeout == {"ok", "timeout"}
OkOrError == {"ok", "error"}
Outcomes == {"ok", "timeout", "error"}
ReadTexts == {<<>>, <<"a">>, None}

ParamsFor(action) ==
    CASE action = "navigate" -> {[url |-> UrlA], [url |-> NoUrl], EmptyParams}
      [] action = "click" -> {[selector |-> "#login"], [text |-> "Sign In"],
                              [selector |-> ""], EmptyParams}
      [] action = "fill" -> {[selector |-> "#user", value |-> "bob"], [value |-> "bob"]}
      [] action = "type" -> {[selector |-> "#user", text |-> "bob"], [text |-> "bob"]}
      [] action = "select" -> {[selector |-> "#role", value |-> "admin"],
                               [selector |-> "#role"], [value |-> "admin"], EmptyParams}
      [] action = "wait" -> {[timeout |-> WaitTimeout], [selector |-> "#login"],
                             [timeout |-> WaitTimeout, headless |-> FALSE]}
      [] action = "hover" -> {[selector |-> "#menu"], EmptyParams}
      [] action = "press_key" -> {[key |-> "Enter"], [key |-> ""]}
      [] OTHER -> {EmptyParams}

\* env gives an outcome only to the calls the action gets to make: a call
\* that is not reached keeps its default
Reached(action, params, e) ==
    LET body == ActionBody(action, params, e)
    IN /\ e.init # "none" => e = [DefaultEnv EXCEPT !.init = e.init]
       /\ action = "navigate" =>
             /\ (e.goto = "ok" /\ e.delay = "ok") => e.load_state = "ok"
             /\ e.screenshot # "ok" => e.title = "ok"
       /\ action = "click" =>
             /\ e.primitive # "ok" => e.settle = "ok"
             /\ (e.primitive # "ok" \/ e.settle = "ok") => e.delay = "ok"
       /\ action \in ScreenshotActions =>
             /\ body.class # "ok" => (e.screenshot = "ok" /\ e.title = "ok")
             /\ (body.class = "ok" /\ e.screenshot = "ok" /\ e.title = "ok")
                    => e.error_screenshot = "ok"
       /\ action = "get_text" =>
             /\ (e.primitive # "ok" \/ e.element = "none") => e.text = <<>>
             /\ e.primitive # "ok" => e.element = "found"
             /\ e.primitive = "ok" => e.error_screenshot = "ok"
       /\ action = "close_browser" =>
             (e.error_screenshot # "ok" => e.close = "page")
       /\ action = "get_page_content_for_validation" =>
             /\ e.primitive = "ok" => e.fallback = "ok"
             /\ e.fallback = "ok" => e.error_screenshot = "ok"
             /\ e.fallback # "ok" => e.text = <<>>

\* the outcomes the Playwright calls of one execute_action can have
EnvsFor(s, action, params) ==
    LET inits == IF action = "close_browser" THEN {"none"}
                 ELSE {"none"} \cup {f \in ResourceFields : s[f] = 0}
        all ==
          IF action = "close_browser"
          THEN {[DefaultEnv EXCEPT !.close = c, !.error_screenshot = es] :
                    c \in {"none"} \cup {f \in ResourceFields : s[f] # 0}, es \in OkOrError}
          ELSE IF MissingParam(action, params) # NoError \/ action = "scroll"
          THEN {[DefaultEnv EXCEPT !.init = i] : i \in inits}
          ELSE CASE action = "navigate" ->
                   {[DefaultEnv EXCEPT !.init = i, !.goto = g, !.load_state = l, !.delay = d,
                                       !.screenshot = sc, !.title = t, !.error_screenshot = es] :
                        i \in inits, g \in OkOrTimeout, l \in OkOrTimeout, d \in OkOrError,
                        sc \in OkOrTimeout, t \in OkOrError, es \in OkOrError}
              [] action = "click" ->
                   {[DefaultEnv EXCEPT !.init = i, !.primitive = pr, !.settle = st, !.delay = d,
                                       !.screenshot = sc, !.error_screenshot = es] :
                        i \in inits, pr \in Outcomes, st \in OkOrTimeout, d \in OkOrError,
                        sc \in OkOrTimeout, es \in OkOrError}
              [] action = "wait" /\ ~HasStr(params, "selector") ->
                   {[DefaultEnv EXCEPT !.init = i, !.delay = d,
                                       !.screenshot = sc, !.error_screenshot = es] :
                        i \in inits, d \in OkOrError, sc \in OkOrTimeout, es \in OkOrError}
              [] action = "get_text" ->
                   {[DefaultEnv EXCEPT !.init = i, !.primitive = pr, !.element = el,
                                       !.text = t, !.error_screenshot = es] :
                        i \in inits, pr \in Outcomes, el \in {"found", "none"},
                        t \in ReadTexts, es \in OkOrError}
              [] action = "get_page_content_for_validation" ->
                   {[DefaultEnv EXCEPT !.init = i, !.primitive = pr, !.fallback = fb,
                                       !.text = t, !.error_screenshot = es] :
                        i \in inits, pr \in OkOrError, fb \in OkOrError,
                        t \in ReadTexts, es \in OkOrError}
              [] OTHER ->
                   {[DefaultEnv EXCEPT !.init = i, !.primitive = pr,
                                       !.screenshot = sc, !.error_screenshot = es] :
                        i \in inits, pr \in Outcomes, sc \in OkOrTimeout, es \in OkOrError}
    IN {e \in all : Reached(action, params, e)}

\* the result is one of the missing-parameter error returns
IsParamError(result) == Has(result, "error") /\ result.error.names # {}

InitHandler ==
    /\ BroadcastIdle
    /\ SharedIdle
    /\ LogsIdle
    /\ PickIdle
    /\ ValidateIdle
    /\ InterpIdle
    /\ HandlerIdle
    /\ RunIdle

\* await PlaywrightApp.handle_action_async({"action": action, "params": params})
\* on session s after the call prev: the session it leaves and the record of
\* the call
CallRecord(r, s, prev, action, params, env) ==
    [session |-> r.session,
     call |-> [action |-> action, params |-> params, env |-> env,
               before |-> s, result |-> r.result, trace |-> r.trace,
               escaped |-> r.escaped,
               follows_param_error |-> IsParamError(prev.result)]]

HandleOn(s, prev, action, params, env) ==
    CallRecord(execute_action(s, action, params, env), s, prev, action, params, env)

handle_action_async(action, params, env) == HandleOn(hSession, hCall, action, params, env)

\* the class attributes and the returned result after a call
Handled(r) == hSession' = r.session /\ hCall' = r.call

Navigate ==
    /\ hCount < MaxCalls
    /\ \E params \in ParamsFor("navigate") :
         \E env \in EnvsFor(hSession, "navigate", params) :
            Handled(handle_action_async("navigate", params, env))
    /\ hCount' = hCount + 1
    /\ UNCHANGED notHandlerVars

Click ==
    /\ hCount < MaxCalls
    /\ \E params \in ParamsFor("click") :
         \E env \in EnvsFor(hSession, "click", params) :
            Handled(handle_action_async("click", params, env))
    /\ hCount' = hCount + 1
    /\ UNCHANGED notHandlerVars

Fill ==
    /\ hCount < MaxCalls
    /\ \E params \in ParamsFor("fill") :
         \E env \in EnvsFor(hSession, "fill", params) :
            Handled(handle_action_async("fill", params, env))
    /\ hCount' = hCount + 1
    /\ UNCHANGED notHandlerVars

TypeText ==
    /\ hCount < MaxCalls
    /\ \E params \in ParamsFor("type") :
         \E env \in EnvsFor(hSession, "type", params) :
            Handled(handle_action_async("type", params, env))
    /\ hCount' = hCount + 1
    /\ UNCHANGED notHandlerVars

SelectOption ==
    /\ hCount < MaxCalls
    /\ \E params \in ParamsFor("select") :
         \E env \in EnvsFor(hSession, "select", params) :
            Handled(handle_action_async("select", params, env))
    /\ hCount' = hCount + 1
    /\ UNCHANGED notHandlerVars

Wait ==
    /\ hCount < MaxCalls
    /\ \E params \in ParamsFor("wait") :
         \E env \in EnvsFor(hSession, "wait", params) :
            Handled(handle_action_async("wait", params, env))
    /\ hCount' = hCount + 1
    /\ UNCHANGED notHandlerVars

GetText ==
    /\ hCount < MaxCalls
    /\ \E params \in ParamsFor("get_text") :
         \E env \in EnvsFor(hSession, "get_text", params) :
            Handled(handle_action_async("get_text", params, env))
    /\ hCount' = hCount + 1
    /\ UNCHANGED notHandlerVars

Hover ==
    /\ hCount < MaxCalls
    /\ \E params \in ParamsFor("hover") :
         \E env \in EnvsFor(hSession, "hover", params) :
            Handled(handle_action_async("hover", params, env))
    /\ hCount' = hCount + 1
    /\ UNCHANGED notHandlerVars

GetPageContentForValidation ==
    /\ hCount < MaxCalls
    /\ \E params \in ParamsFor("get_page_content_for_validation") :
         \E env \in EnvsFor(hSession, "get_page_content_for_validation", params) :
            Handled(handle_action_async("get_page_content_for_validation", params, env))
    /\ hCount' = hCount + 1
    /\ UNCHANGED notHandlerVars

PressKey ==
    /\ hCount < MaxCalls
    /\ \E params \in ParamsFor("press_key") :
         \E env \in EnvsFor(hSession, "press_key", params) :
            Handled(handle_action_async("press_key", params, env))
    /\ hCount' = hCount + 1
    /\ UNCHANGED notHandlerVars

CloseBrowser ==
    /\ hCount < MaxCalls
    /\ \E params \in ParamsFor("close_browser") :
         \E env \in EnvsFor(hSession, "close_browser", params) :
            Handled(handle_action_async("close_browser", params, env))
    /\ hCount' = hCount + 1
    /\ UNCHANGED notHandlerVars

UnknownAction ==
    /\ hCount < MaxCalls
    /\ \E params \in ParamsFor("scroll") :
         \E env \in EnvsFor(hSession, "scroll", params) :
            Handled(handle_action_async("scroll", params, env))
    /\ hCount' = hCount + 1
    /\ UNCHANGED notHandlerVars

NextHandler ==
    \/ Navigate \/ Click \/ Fill \/ TypeText \/ SelectOption \/ Wait \/ GetText \/ Hover
    \/ GetPageContentForValidation \/ PressKey \/ CloseBrowser \/ UnknownAction

SpecHandler == InitHandler /\ [][NextHandler]_vars

(***************************************************************************)
(* The orchestrator (execute_test_background): fetch, interpret, execute   *)
(* every action, complete; any exception ends the run in the except        *)
(* clause.  A run is cut where the coroutine awaits.                       *)
(***************************************************************************)
MaxRunSteps == 2

RunStepPool ==
    {[content |-> <<Word("Navigate"), UrlWord(UrlA)>>, expected |-> <<Data(<<"a">>)>>],
     [content |-> <<Word("Click"), Quoted("Sign In")>>, expected |-> <<>>],
     [content |-> <<Word("verify")>>, expected |-> <<Data(<<"b">>)>>]}

\* the steps of the test cases run with the AI interpreter enabled
AIRunStepPool ==
    {[content |-> <<Word("Navigate"), UrlWord(UrlA)>>, expected |-> <<Data(<<"a">>)>>]}

RECURSIVE StepListsUpTo(_, _)
StepListsUpTo(n, pool) ==
    IF n = 0 THEN {<<>>}
    ELSE LET shorter == StepListsUpTo(n - 1, pool)
         IN shorter \cup {Append(l, st) : l \in shorter, st \in pool}

\* what agent.handle("testrail", get_test_case) can answer
NoResponse == EmptyParams
TestRailResults(pool) ==
    {NoResponse, [error |-> "TestRail error"]}
    \cup {[test_case |-> [title |-> "T", custom_steps_separated |-> l]] :
              l \in StepListsUpTo(MaxRunSteps, pool)}
    \cup {[title |-> "T", steps |-> <<st>>] : st \in pool}
    \cup {[test_case |-> [title |-> "T"]]}

\* test_case = testrail_result.get("test_case") or testrail_result
TestCaseOf(testrail_result) ==
    IF Has(testrail_result, "test_case") /\ testrail_result.test_case # EmptyParams
    THEN testrail_result.test_case
    ELSE testrail_result

\* a selection decided by the first alias that is a key of the test case
StepsOf_KeyPresent(test_case) ==
    IF Has(test_case, "custom_steps_separated") THEN test_case.custom_steps_separated
    ELSE IF Has(test_case, "custom_steps") THEN test_case.custom_steps
    ELSE IF Has(test_case, "steps") THEN test_case.steps
    ELSE <<>>

\* steps = custom_steps_separated or custom_steps or steps or []
StepsOf(test_case) ==
    IF Has(test_case, "custom_steps_separated") /\ test_case.custom_steps_separated # <<>>
    THEN test_case.custom_steps_separated
    ELSE IF Has(test_case, "custom_steps") /\ test_case.custom_steps # <<>>
         THEN test_case.custom_steps
    ELSE IF Has(test_case, "steps") /\ test_case.steps # <<>> THEN test_case.steps
    ELSE <<>>

\* the step made up when the test case has none; step.get("expected", "") is ""
DummyStep == [content |-> <<Word("Default step - no steps found in TestRail")>>,
              expected |-> <<>>]
DummyAction ==
    [action |-> "wait", params |-> [timeout |-> WaitTimeout], description |-> "Default action"]

RECURSIVE ServerRulePass(_, _)
\* the rule-based loop over all the steps
ServerRulePass(steps, base_url) ==
    IF steps = <<>> THEN <<>>
    ELSE LET r == ServerRuleStep(Head(steps), base_url)
         IN r.actions \o ServerRulePass(Tail(steps), r.base_url)

\* an interpreter that returns an empty list as soon as one call fails
interpret_multiple_steps_GiveUp(steps, rsps, base_url) ==
    IF \E i \in 1..Len(steps) : rsps[i].kind # "object"
    THEN [raised |-> FALSE, actions |-> <<>>]
    ELSE [raised |-> FALSE,
          actions |-> [i \in 1..Len(steps) |-> interpret_step(steps[i], rsps[i])]]

RECURSIVE interpret_multiple_steps(_, _, _)
\* AIInterpreter.interpret_multiple_steps, rsps[i] the provider's answer for step i
interpret_multiple_steps(steps, rsps, base_url) ==
    IF steps = <<>> THEN [raised |-> FALSE, actions |-> <<>>]
    ELSE LET r == AIStep(Head(steps), Head(rsps), base_url)
             rest == interpret_multiple_steps(Tail(steps), Tail(rsps), r.base_url)
         IN IF r.raised THEN [raised |-> TRUE, actions |-> <<>>]
            ELSE [raised |-> rest.raised, actions |-> r.actions \o rest.actions]

\* action["description"] = action["original_step"][:100]
AddDescription(action) ==
    IF Has(action, "original_step") /\ ~Has(action, "description")
    THEN Merge(action, [description |-> action.original_step])
    ELSE action

\* an interpretation that falls back to the rule-based parsing step by step,
\* for the steps the AI interpreter failed on
InterpretSteps_StepwiseFallback(enabled, steps, rsps) ==
    LET ai == interpret_multiple_steps(steps, rsps, NoUrl)
        rule(i) == LET r == ServerRulePass(<<steps[i]>>, NoUrl)
                   IN IF r = <<>> THEN DummyAction ELSE r[1]
        chosen == IF enabled /\ ai.actions # <<>>
                  THEN [i \in 1..Len(ai.actions) |->
                           IF ai.actions[i].confidence = 0 THEN rule(i)
                           ELSE AddDescription(ai.actions[i])]
                  ELSE ServerRulePass(steps, NoUrl)
    IN [raised |-> enabled /\ ai.raised,
        actions |-> IF chosen = <<>> THEN <<DummyAction>> ELSE chosen]

\* AI interpretation first, else rule-based parsing, else one dummy action
InterpretSteps(enabled, steps, rsps) ==
    LET ai == interpret_multiple_steps(steps, rsps, NoUrl)
        chosen == IF enabled /\ ai.actions # <<>>
                  THEN [i \in 1..Len(ai.actions) |-> AddDescription(ai.actions[i])]
                  ELSE ServerRulePass(steps, NoUrl)
    IN [raised |-> enabled /\ ai.raised,
        actions |-> IF chosen = <<>> THEN <<DummyAction>> ELSE chosen]

\* the page_content string built from page_data; the characters of the frame
\* that texts can contain (" ", "B") are characters of their own
FormatPageContent(page_data) ==
    <<"Visible", " ", "Text:\n">>
    \o Get(page_data, "visible_text", <<>>)
    \o <<"\n\nForm", " ", "Fields:\n", "\nDropdowns:\n", "\n", "B", "uttons:", " ", "\n">>

Progress(stage, percent) == [stage |-> stage, percent |-> percent]

\* a step progress that spreads the actions over the whole scale
StepProgress_WholeScale(idx, n) == 60 + ((idx + 1) * 100) \div n

\* step_progress = 60 + int((idx + 1) / len(playwright_actions) * 30)
StepProgress(idx, n) == 60 + ((idx + 1) * 30) \div n

\* the outcomes of the Playwright calls of an executed action the runs go through
RunEnvs ==
    {DefaultEnv,
     [DefaultEnv EXCEPT !.primitive = "timeout"],
     [DefaultEnv EXCEPT !.goto = "timeout", !.load_state = "timeout"],
     [DefaultEnv EXCEPT !.init = "browser"],
     [DefaultEnv EXCEPT !.primitive = "error", !.error_screenshot = "error"]}
RunEnvsFor(s, action, params) ==
    IF params = NullParams THEN {DefaultEnv}
    ELSE RunEnvs \cap EnvsFor(s, action, params)
PageEnvs ==
    {[DefaultEnv EXCEPT !.text = t] : t \in {<<>>, <<"a">>}}
    \cup {[DefaultEnv EXCEPT !.primitive = "error", !.fallback = "error"]}
TextEnvs ==
    {[DefaultEnv EXCEPT !.text = t] : t \in {<<"a">>, None}}
    \cup {[DefaultEnv EXCEPT !.element = "none"]}
RunAIInterpretResponses ==
    {r \in AIInterpretResponses :
        \/ r.kind = "call_error"
        \/ r.kind = "object" /\ r.obj.action = "fill"
        \/ r.kind = "object" /\ r.obj.action = "navigate" /\ Has(r.obj, "params")
              /\ r.obj.params = NullParams}
RunAIValidationResponses ==
    {r \in AIValidationResponses :
        \/ r.kind = "call_error"
        \/ r.kind = "object" /\ DOMAIN r.obj \in {AIObjectKeys, {"confidence"}}}

\* a step status that also requires the action to have succeeded
StepStatus_RequireExecution(has_validation, validation_passed, success) ==
    IF validation_passed /\ success THEN "PASSED" ELSE "FAILED"

\* step_status: the judgment when the action carries an expected result, the
\* execution result otherwise
StepStatus(has_validation, validation_passed, success) ==
    IF has_validation THEN (IF validation_passed THEN "PASSED" ELSE "FAILED")
    ELSE IF success THEN "PASSED" ELSE "FAILED"

\* The end of an iteration of the execution loop, up to step_status: c1 is
\* the call that ran the action, c2 the get_page_content_for_validation call
\* and c3 the get_text call (c2 is made when the action carries an expected
\* result, c3 when c2 did not succeed).
IterationResult(c1, c2, c3, action, enabled, rsp) ==
    LET expected_result == Get(action, "expected", <<>>)
        has_validation == RawNonBlank(expected_result)
        page_ok == Succeeded(c2.call.result)
        page_content == IF page_ok THEN FormatPageContent(c2.call.result.page_data)
                        ELSE Get(c3.call.result, "text", <<>>)
        val == AIInterpreter_validate_expected_result(enabled, rsp,
                   strip_html(expected_result), page_content)
        validation_passed ==
            IF has_validation /\ ~val.raised THEN Get(val.ret, "passed", FALSE) ELSE TRUE
    IN [session |-> IF ~has_validation THEN c1.session
                    ELSE IF page_ok THEN c2.session ELSE c3.session,
        call |-> IF ~has_validation THEN c1.call ELSE IF page_ok THEN c2.call ELSE c3.call,
        exec_result |-> c1.call.result,
        has_validation |-> has_validation,
        raised |-> has_validation /\ val.raised,
        page_source |-> IF ~has_validation THEN "none"
                        ELSE IF page_ok THEN "page_data" ELSE "get_text",
        validation_passed |-> validation_passed,
        validation_message |->
            IF has_validation /\ ~val.raised THEN Get(val.ret, "message", "") ELSE "",
        validation_reasoning |->
            IF has_validation /\ ~val.raised THEN Get(val.ret, "reasoning", "") ELSE "",
        ai_calls |-> IF has_validation THEN val.ai_calls ELSE 0,
        step_status |->
            StepStatus(has_validation, validation_passed, Succeeded(c1.call.result))]

\* page_validation_fallback = await agent.handle("playwright", get_text)
IterationAfterPage(c1, c2, action, enabled, tenv, rsp) ==
    IterationResult(c1, c2, HandleOn(c2.session, c2.call, "get_text", EmptyParams, tenv),
                    action, enabled, rsp)

\* page_validation = await agent.handle("playwright", get_page_content_for_validation)
IterationAfterExec(c1, action, enabled, penv, tenv, rsp) ==
    IterationAfterPage(c1,
        HandleOn(c1.session, c1.call, "get_page_content_for_validation", EmptyParams, penv),
        action, enabled, tenv, rsp)

\* One iteration of the execution loop up to step_status: the action is run,
\* the page is read and judged when the action carries an expected result.
Iteration(s, prev, action, enabled, env, penv, tenv, rsp) ==
    IterationAfterExec(
        HandleOn(s, prev, Get(action, "action", None), Get(action, "params", EmptyParams), env),
        action, enabled, penv, tenv, rsp)

\* a row numbered by the index of the loop
TestStepRow_ZeroBased(idx, action, it) ==
    [step_number |-> idx,
     description |-> Get(action, "description", "str(action)"),
     action_type |-> Get(action, "action", None),
     status |-> it.step_status,
     error_message |-> IF ~it.validation_passed THEN it.validation_message ELSE "",
     screenshot_path |-> Get(it.exec_result, "screenshot", NoPath)]

\* the TestStep row of an iteration
TestStepRow(idx, action, it) ==
    [step_number |-> idx + 1,
     description |-> Get(action, "description", "str(action)"),
     action_type |-> Get(action, "action", None),
     status |-> it.step_status,
     error_message |-> IF ~it.validation_passed THEN it.validation_message ELSE "",
     screenshot_path |-> Get(it.exec_result, "screenshot", NoPath)]

\* an execution loop that stops at the first failed step
AfterStep_StopOnFailure(idx, step_status, n) ==
    IF step_status = "FAILED" THEN n ELSE idx + 1

\* for idx, action in enumerate(playwright_actions): the loop goes on to the
\* next action whatever step_status is
AfterStep(idx, step_status, n) == idx + 1

\* an interpreter that reports itself enabled whatever the credentials are
AIInterpreter_init_AlwaysEnabled(api_key, client) == TRUE

\* AIInterpreter.__init__: self.enabled, api_key being the argument or the
\* OPENAI_API_KEY variable and client what constructing the OpenAI client does
AIInterpreter_init(api_key, client) == api_key # NoKey /\ client = "ok"

ApiKeys == {NoKey, "sk-key"}

InitRun ==
    /\ BroadcastIdle
    /\ SharedIdle
    /\ LogsIdle
    /\ PickIdle
    /\ ValidateIdle
    /\ InterpIdle
    /\ hSession = NoSession
    /\ hCall = NoCall
    /\ hCount = 0
    /\ rPc = "start"
    /\ rApiKey \in ApiKeys
    /\ \E client \in {"ok", "error"} : rEnabled = AIInterpreter_init(rApiKey, client)
    /\ rSteps = <<>> /\ rActions = <<>> /\ rIdx = 0 /\ rPassed = 0 /\ rFailed = 0
    /\ rRun = [NoRun EXCEPT !.status = "RUNNING"]
    /\ rStepRows = <<>> /\ rShotRows = <<>> /\ rProgress = <<>> /\ rLast = NoIteration
    /\ rFetch = NotFetched /\ rCause = "none" /\ rAICalls = 0

\* the error message sent by the except clause, carrying str(e)
ErrorProgress(cause) == [stage |-> "error", percent |-> 0, message |-> cause]

\* except Exception, the exception coming from the call `cause`: the error
\* message is sent, the run row is set to FAILED with its end time, the daily
\* metrics are updated; when one of the two updates raises too the exception
\* leaves the task
ExceptClause(cause, progress, stepRows, shotRows, run, last) ==
    \E db \in {"ok", "update_test_run", "update_daily_metrics"} :
        /\ rPc' = IF db = "ok" THEN "error" ELSE "crashed"
        /\ rCause' = cause
        /\ rProgress' = Append(progress, ErrorProgress(cause))
        /\ rRun' = IF db = "update_test_run" THEN run
                   ELSE [run EXCEPT !.status = "FAILED", !.end_time = TRUE]
        /\ rStepRows' = stepRows
        /\ rShotRows' = shotRows
        /\ rLast' = last
        /\ UNCHANGED <<rEnabled, rSteps, rActions, rIdx, rPassed, rFailed, rApiKey>>

\* a step list that keeps an empty list empty
StepsOrDummy_NoPlaceholder(found) == found

\* if not steps: steps = [the dummy step]
StepsOrDummy(found) == IF found = <<>> THEN <<DummyStep>> ELSE found

\* stage 1: the test case is fetched and its steps are picked
FetchTestCase ==
    /\ rPc = "start"
    /\ \E res \in TestRailResults(IF rEnabled THEN AIRunStepPool ELSE RunStepPool),
          dbok \in BOOLEAN :
         LET progress == Append(rProgress, Progress("fetching", 20))
             steps == StepsOrDummy(StepsOf(TestCaseOf(res)))
         IN /\ rFetch' = res
            /\ IF res = NoResponse \/ Has(res, "error")
               THEN ExceptClause("get_test_case", progress, rStepRows, rShotRows, rRun, rLast)
               ELSE IF ~dbok
               THEN ExceptClause("update_test_run", progress, rStepRows, rShotRows, rRun,
                                 rLast)
               ELSE /\ rPc' = "fetched"
                    /\ rSteps' = steps
                    /\ rRun' = [rRun EXCEPT !.total_steps = Len(steps)]
                    /\ rProgress' = progress
                    /\ UNCHANGED <<rEnabled, rActions, rIdx, rPassed, rFailed,
                                   rStepRows, rShotRows, rLast, rApiKey, rCause>>
    /\ UNCHANGED <<hSession, hCall, rAICalls>>
    /\ UNCHANGED notRunVars

RECURSIVE InterpretRequests(_, _, _)
\* the requests interpret_multiple_steps sends: one per step, up to the step it
\* raises at
InterpretRequests(steps, rsps, base_url) ==
    IF steps = <<>> THEN 0
    ELSE LET r == AIStep(Head(steps), Head(rsps), base_url)
         IN 1 + (IF r.raised THEN 0
                 ELSE InterpretRequests(Tail(steps), Tail(rsps), r.base_url))

\* stages 2 and 3: the steps are turned into playwright_actions
InterpretAll ==
    /\ rPc = "fetched"
    /\ \E rsps \in (IF rEnabled THEN [1..Len(rSteps) -> RunAIInterpretResponses]
                    ELSE {<<>>}) :
         LET progress == Append(rProgress, Progress("ai_processing", 40))
             r == InterpretSteps(rEnabled, rSteps, rsps)
         IN /\ rAICalls' = rAICalls + (IF rEnabled THEN InterpretRequests(rSteps, rsps, NoUrl)
                                       ELSE 0)
            /\ IF r.raised
               THEN ExceptClause("interpret_multiple_steps", progress, rStepRows, rShotRows,
                                 rRun, rLast)
               ELSE /\ rPc' = "executing"
                    /\ rActions' = r.actions
                    /\ rProgress' = progress \o <<Progress("ai_processing", 50),
                                                  Progress("executing", 60)>>
                    /\ UNCHANGED <<rEnabled, rSteps, rIdx, rPassed, rFailed, rRun,
                                   rStepRows, rShotRows, rLast, rApiKey, rCause>>
    /\ UNCHANGED <<hSession, hCall, rFetch>>
    /\ UNCHANGED notRunVars

\* a loop that makes a Screenshot row for every step
ScreenshotRows_Always(shotRows, row) ==
    Append(shotRows, [step_number |-> row.step_number, file_path |-> row.screenshot_path])

\* if exec_result.get("screenshot"): db.create_screenshot(Screenshot(
\* test_step_id=step_id, file_path=screenshot_path)), the row naming the step
\* row made just before it
ScreenshotRows(shotRows, row) ==
    IF row.screenshot_path # NoPath
    THEN Append(shotRows, [step_number |-> row.step_number,
                           file_path |-> row.screenshot_path])
    ELSE shotRows

\* the rest of an iteration: the step and screenshot rows, the counters
RecordIteration(it, row, progress, db) ==
    LET shot == row.screenshot_path # NoPath
        stepRows == Append(rStepRows, row)
        last == [success |-> Succeeded(it.exec_result),
                 has_validation |-> it.has_validation,
                 validation_passed |-> it.validation_passed,
                 page_source |-> it.page_source,
                 reasoning |-> it.validation_reasoning,
                 raised |-> IF it.raised THEN "validation"
                            ELSE IF db = "create_test_step" \/ shot THEN db ELSE "ok"]
    IN /\ hSession' = it.session
       /\ hCall' = it.call
       /\ rAICalls' = rAICalls + it.ai_calls
       /\ IF it.raised
          THEN ExceptClause("validate_expected_result", progress, rStepRows, rShotRows,
                            rRun, last)
          ELSE IF db = "create_test_step"
          THEN ExceptClause(db, progress, rStepRows, rShotRows, rRun, last)
          ELSE IF db = "create_screenshot" /\ shot
          THEN ExceptClause(db, progress, stepRows, rShotRows, rRun, last)
          ELSE /\ rStepRows' = stepRows
               /\ rShotRows' = ScreenshotRows(rShotRows, row)
               /\ rPassed' = IF row.status = "PASSED" THEN rPassed + 1 ELSE rPassed
               /\ rFailed' = IF row.status = "PASSED" THEN rFailed ELSE rFailed + 1
               /\ rIdx' = AfterStep(rIdx, row.status, Len(rActions))
               /\ rProgress' = progress
               /\ rLast' = [last EXCEPT !.raised = "none"]
               /\ UNCHANGED <<rPc, rEnabled, rSteps, rActions, rRun, rApiKey, rCause>>

\* a loop that goes through the actions from the last one to the first
NextAction_Reversed(actions, idx) == actions[Len(actions) - idx]

\* for idx, action in enumerate(playwright_actions): the action of the
\* iteration that follows idx completed ones
NextAction(actions, idx) == actions[idx + 1]

\* the iteration of the action, its Playwright calls and the judgment ending as
\* env, penv, tenv and rsp say
RunIteration(action, env, penv, tenv, rsp, db) ==
    /\ RecordIteration(Iteration(hSession, hCall, action, rEnabled, env, penv, tenv, rsp),
                       TestStepRow(rIdx, action,
                           Iteration(hSession, hCall, action, rEnabled, env, penv, tenv, rsp)),
                       Append(rProgress,
                              Progress("executing", StepProgress(rIdx, Len(rActions)))),
                       db)
    /\ IF Iteration(hSession, hCall, action, rEnabled, env, penv, tenv, rsp).page_source
              = "get_text"
       THEN tenv \in TextEnvs
       ELSE tenv = DefaultEnv      \* get_text is not called

\* stage 4, one iteration of `for idx, action in enumerate(playwright_actions)`
ExecuteStep ==
    /\ rPc = "executing"
    /\ rIdx < Len(rActions)
    /\ \E env \in RunEnvsFor(hSession, Get(NextAction(rActions, rIdx), "action", None),
                            Get(NextAction(rActions, rIdx), "params", EmptyParams)),
          penv \in (IF RawNonBlank(Get(NextAction(rActions, rIdx), "expected", <<>>))
                    THEN PageEnvs ELSE {DefaultEnv}),
          tenv \in TextEnvs \cup {DefaultEnv},
          rsp \in (IF RawNonBlank(Get(NextAction(rActions, rIdx), "expected", <<>>)) /\ rEnabled
                   THEN RunAIValidationResponses ELSE {NoRsp}),
          db \in {"ok", "create_test_step", "create_screenshot"} :
            RunIteration(NextAction(rActions, rIdx), env, penv, tenv, rsp, db)
    /\ rFetch' = rFetch
    /\ UNCHANGED notRunVars

\* a final status that is PASSED as soon as one step passed
FinalStatus_AnyPassed(passed_steps, failed_steps) ==
    IF passed_steps > 0 THEN "PASSED" ELSE "FAILED"

\* final_status = "PASSED" if failed_steps == 0 else "FAILED"
FinalStatus(passed_steps, failed_steps) ==
    IF failed_steps = 0 THEN "PASSED" ELSE "FAILED"

\* after the loop: final status, the complete message, the run row, the metrics
CompleteRun ==
    /\ rPc = "executing"
    /\ rIdx >= Len(rActions)
    /\ \E db \in {"ok", "update_test_run", "update_daily_metrics"} :
         LET final_status == FinalStatus(rPassed, rFailed)
             progress == Append(rProgress, Progress("complete", 100))
             run == [rRun EXCEPT !.status = final_status, !.end_time = TRUE,
                                 !.passed_steps = rPassed,
                                 !.total_steps = Len(rActions)]
         IN IF db = "update_test_run"
            THEN ExceptClause(db, progress, rStepRows, rShotRows, rRun, rLast)
            ELSE IF db = "update_daily_metrics"
            THEN ExceptClause(db, progress, rStepRows, rShotRows, run, rLast)
            ELSE /\ rPc' = "complete"
                 /\ rRun' = run
                 /\ rProgress' = progress
                 /\ UNCHANGED <<rEnabled, rSteps, rActions, rIdx, rPassed, rFailed,
                                rStepRows, rShotRows, rLast, rApiKey, rCause>>
    /\ UNCHANGED <<hSession, hCall, rFetch, rAICalls>>
    /\ UNCHANGED notRunVars

NextRun == FetchTestCase \/ InterpretAll \/ ExecuteStep \/ CompleteRun

SpecRun == InitRun /\ [][NextRun]_vars

(***************************************************************************)
(* The run task under cancellation and process shutdown                    *)
(***************************************************************************)
EndedPcs == {"complete", "error", "crashed", "cancelled"}

\* Task.cancel() on the task created by asyncio.create_task.  The task can be
\* cancelled before its first step, or while it is suspended in the browser
\* action of a loop iteration (the test case fetch, the AI calls and the
\* database calls are synchronous and do not suspend).  CancelledError is then
\* raised at the await; it derives from BaseException, so neither the except
\* clauses of execute_action nor `except Exception` of the task catch it: no
\* statement of the except clause runs and the task ends.  The run row and the
\* rows recorded so far stay as they were; the session holds what
\* initialize_browser had created when the call was interrupted (at the
\* creation of `at`, or after initialisation for "none").
CancelRun ==
    /\ \/ /\ rPc = "start"
          /\ UNCHANGED <<hSession, rProgress>>
       \/ /\ rPc = "executing"
          /\ rIdx < Len(rActions)
          /\ rProgress' = Append(rProgress,
                                 Progress("executing", StepProgress(rIdx, Len(rActions))))
          /\ \E at \in {"none"} \cup ResourceFields :
                hSession' =
                   IF Get(NextAction(rActions, rIdx), "action", None) = "close_browser"
                      \/ Get(NextAction(rActions, rIdx), "params", EmptyParams) = NullParams
                   THEN hSession
                   ELSE initialize_browser(hSession,
                            Get(Get(NextAction(rActions, rIdx), "params", EmptyParams),
                                "headless", TRUE), at).session
    /\ rPc' = "cancelled"
    /\ UNCHANGED <<rEnabled, rSteps, rActions, rIdx, rPassed, rFailed, rRun, rStepRows,
                   rShotRows, rLast, rApiKey, rFetch, rCause, rAICalls>>
    /\ UNCHANGED hCall
    /\ UNCHANGED notRunVars

\* shutdown_event, once the run task has ended: it prints a message; nothing
\* calls PlaywrightHandler.close_browser
Shutdown ==
    /\ rPc \in EndedPcs
    /\ rPc' = "shutdown"
    /\ UNCHANGED <<rEnabled, rSteps, rActions, rIdx, rPassed, rFailed, rRun, rStepRows,
                   rShotRows, rProgress, rLast, rApiKey, rFetch, rCause, rAICalls>>
    /\ UNCHANGED <<hSession, hCall>>
    /\ UNCHANGED notRunVars

NextLifecycle == NextRun \/ CancelRun \/ Shutdown

SpecLifecycle == InitRun /\ [][NextLifecycle]_vars

(***************************************************************************)
(* Two runs started from the chat socket: each is a task of the same event *)
(* loop, and both act through PlaywrightHandler's class attributes         *)
(***************************************************************************)
MaxSharedSteps == 2

InitShared ==
    /\ ValidateIdle
    /\ InterpIdle
    /\ HandlerIdle
    /\ RunIdle
    /\ BroadcastIdle
    /\ SharedIdle
    /\ LogsIdle
    /\ PickIdle

\* asyncio.create_task(execute_test_background(test_id, run_id))
StartRun(run) ==
    /\ sPc[run] = "none"
    /\ sPc' = [sPc EXCEPT ![run] = "act"]
    /\ UNCHANGED <<sIdx, sPage, sSeen>>
    /\ UNCHANGED notSharedVars

\* exec_result = await agent.handle("playwright", ...): the action of the
\* run's current step acts on PlaywrightHandler._page
SharedAct(run) ==
    /\ sPc[run] = "act"
    /\ sPage' = <<run, sIdx[run] + 1>>
    /\ sPc' = [sPc EXCEPT ![run] = "snapshot"]
    /\ UNCHANGED <<sIdx, sSeen>>
    /\ UNCHANGED notSharedVars

\* page_validation = await agent.handle("playwright",
\* get_page_content_for_validation): the run reads PlaywrightHandler._page,
\* then records the step and goes on to its next action
SharedSnapshot(run) ==
    /\ sPc[run] = "snapshot"
    /\ sSeen' = [sSeen EXCEPT ![run] = Append(@, sPage)]
    /\ sIdx' = [sIdx EXCEPT ![run] = @ + 1]
    /\ sPc' = [sPc EXCEPT ![run] = IF sIdx[run] + 1 >= MaxSharedSteps THEN "done" ELSE "act"]
    /\ UNCHANGED sPage
    /\ UNCHANGED notSharedVars

NextShared ==
    \E run \in Runs : StartRun(run) \/ SharedAct(run) \/ SharedSnapshot(run)

SpecShared == InitShared /\ [][NextShared]_vars

(***************************************************************************)
(* The progress broadcast: ConnectionManager and the chat sockets          *)
(***************************************************************************)
MaxSockets == 3
MaxBroadcasts == 2
Sockets == 1..MaxSockets

InList(l, x) == \E i \in 1..Len(l) : l[i] = x

\* list.remove(x): the list without its first x
Remove(l, x) ==
    LET i == CHOOSE k \in 1..Len(l) : l[k] = x /\ \A j \in 1..(k - 1) : l[j] # x
    IN SubSeq(l, 1, i - 1) \o SubSeq(l, i + 1, Len(l))

InitBroadcast ==
    /\ ValidateIdle
    /\ InterpIdle
    /\ HandlerIdle
    /\ RunIdle
    /\ SharedIdle
    /\ LogsIdle
    /\ PickIdle
    /\ BroadcastIdle

\* ConnectionManager.connect, called first by websocket_chat for a new socket
Connect(ws) ==
    /\ ~InList(active_connections, ws)
    /\ active_connections' = Append(active_connections, ws)
    /\ UNCHANGED <<bPc, bIdx, bCur, bPresent, bAttempted, bFailed, bCount>>
    /\ UNCHANGED notBroadcastVars

\* ConnectionManager.disconnect, called by websocket_chat on
\* WebSocketDisconnect; the handler of a socket runs whenever the task that
\* broadcasts is suspended, and the iterator of a broadcast in progress keeps
\* its position
Disconnect(ws) ==
    /\ InList(active_connections, ws)
    /\ active_connections' = Remove(active_connections, ws)
    /\ bPresent' = IF bPc = "sending" THEN bPresent \ {ws} ELSE bPresent
    /\ UNCHANGED <<bPc, bIdx, bCur, bAttempted, bFailed, bCount>>
    /\ UNCHANGED notBroadcastVars

\* next() of the iterator of `for connection in self.active_connections`,
\* then the call of connection.send_json, in which the broadcast suspends;
\* the broadcast returns when the iterator is exhausted
BroadcastLoop(idx, attempted, failed) ==
    IF idx < Len(active_connections)
    THEN /\ bPc' = "sending"
         /\ bIdx' = idx + 1
         /\ bCur' = active_connections[idx + 1]
         /\ bAttempted' = attempted \cup {active_connections[idx + 1]}
         /\ bFailed' = failed
    ELSE /\ bPc' = "idle"
         /\ bIdx' = 0
         /\ bCur' = 0
         /\ bAttempted' = attempted
         /\ bFailed' = failed

\* await manager.broadcast(message), also through send_progress
BeginBroadcast ==
    /\ bPc = "idle"
    /\ bCount < MaxBroadcasts
    /\ bCount' = bCount + 1
    /\ bPresent' = {active_connections[i] : i \in 1..Len(active_connections)}
    /\ BroadcastLoop(0, {}, {})
    /\ UNCHANGED active_connections
    /\ UNCHANGED notBroadcastVars

\* send_json returns or raises; `except: pass` drops whatever it raises and
\* the loop goes on
SendReturns ==
    /\ bPc = "sending"
    /\ \E outcome \in {"ok", "error"} :
          BroadcastLoop(bIdx, bAttempted,
                        IF outcome = "error" THEN bFailed \cup {bCur} ELSE bFailed)
    /\ UNCHANGED <<active_connections, bPresent, bCount>>
    /\ UNCHANGED notBroadcastVars

NextBroadcast ==
    \/ \E ws \in Sockets : Connect(ws) \/ Disconnect(ws)
    \/ BeginBroadcast
    \/ SendReturns

SpecBroadcast == InitBroadcast /\ [][NextBroadcast]_vars

(***************************************************************************)
(* The console/error log buffer: PlaywrightHandler._logs, the page events  *)
(* that fill it, the actions that read and clear it, and what the caller   *)
(* of get_logs does with the list it was given                             *)
(***************************************************************************)
MaxLogEntries == 3
LogEvents == {[type |-> "console", text |-> "a"], [type |-> "error", text |-> "b"]}

InitLogs ==
    /\ ValidateIdle
    /\ InterpIdle
    /\ HandlerIdle
    /\ RunIdle
    /\ BroadcastIdle
    /\ SharedIdle
    /\ LogsIdle
    /\ PickIdle

\* _log_console / _log_error, called by the page's console and pageerror
\* events: a new dict is appended
LogEvent(e) ==
    /\ Len(lObjects) < MaxLogEntries
    /\ lObjects' = Append(lObjects, e)
    /\ logs' = Append(logs, Len(lObjects) + 1)
    /\ UNCHANGED lReturned
    /\ UNCHANGED notLogVars

\* the get_logs action: "logs": cls._logs.copy(), a new list holding the
\* same dicts
GetLogs ==
    /\ lReturned' = [read |-> TRUE, list |-> logs]
    /\ UNCHANGED <<logs, lObjects>>
    /\ UNCHANGED notLogVars

\* the clear_logs action: cls._logs.clear()
ClearLogs ==
    /\ logs # <<>>
    /\ logs' = <<>>
    /\ UNCHANGED <<lObjects, lReturned>>
    /\ UNCHANGED notLogVars

\* the caller removes the first element of the list it was given
ReaderDropsEntry ==
    /\ lReturned.read /\ lReturned.list # <<>>
    /\ lReturned' = [lReturned EXCEPT !.list = Tail(@)]
    /\ UNCHANGED <<logs, lObjects>>
    /\ UNCHANGED notLogVars

\* the caller changes a dict of the list it was given
ReaderEditsEntry(i) ==
    /\ lReturned.read /\ i \in 1..Len(lReturned.list)
    /\ lObjects' = [lObjects EXCEPT ![lReturned.list[i]].text = "edited"]
    /\ UNCHANGED <<logs, lReturned>>
    /\ UNCHANGED notLogVars

NextLogs ==
    \/ \E e \in LogEvents : LogEvent(e)
    \/ GetLogs
    \/ ClearLogs
    \/ ReaderDropsEntry
    \/ \E i \in 1..MaxLogEntries : ReaderEditsEntry(i)

SpecLogs == InitLogs /\ [][NextLogs]_vars

(***************************************************************************)
(* The step list of a fetched test case (server.py and main.py pick it     *)
(* with the same expression)                                               *)
(***************************************************************************)
StepAliases == <<"custom_steps_separated", "custom_steps", "steps">>
PickA == [content |-> <<Word("Click")>>, expected |-> <<>>]
PickB == [content |-> <<Word("verify")>>, expected |-> <<>>]
\* what a test case holds under an alias; a null value is falsy like the
\* empty list and is not told apart from it
AliasValues == {<<>>, <<PickA>>, <<PickB>>, <<PickA, PickB>>}
AliasCases ==
    UNION {[keys -> AliasValues] :
              keys \in SUBSET {StepAliases[i] : i \in 1..Len(StepAliases)}}

InitSteps ==
    /\ ValidateIdle
    /\ InterpIdle
    /\ HandlerIdle
    /\ RunIdle
    /\ BroadcastIdle
    /\ SharedIdle
    /\ LogsIdle
    /\ fCase \in AliasCases
    /\ fSteps = NotPicked

\* steps = (test_case.get("custom_steps_separated") or ... or [])
PickSteps ==
    /\ ~fSteps.picked
    /\ fSteps' = [picked |-> TRUE, steps |-> StepsOf(fCase)]
    /\ UNCHANGED fCase
    /\ UNCHANGED notPickVars

NextSteps == PickSteps

SpecSteps == InitSteps /\ [][NextSteps]_vars

(***************************************************************************)
(* Claims about interpretation (SpecInterp)                                *)
(***************************************************************************)
RuleBasedImpls == {"server", "main", "service"}
\* the step carries no URL at all: no link target, no URL or path word
NoUrlInStep(step) == \A i \in 1..Len(step.content) : step.content[i].url = NoUrl
NavKeywordInText(step) ==
    \E i \in 1..Len(step.content) :
        /\ step.content[i].kind = "word"
        /\ step.content[i].text \in {"Navigate", "OPEN", "Go to", "reopen"}

\* C1: on every rule-based path a returned action list has exactly one action
\* per step, action i derived from step i.
C1_OneActionPerStep ==
    (iPc = "returned" /\ iImpl \in RuleBasedImpls)
        => /\ Len(iActions) = Len(iSteps)
           /\ \A i \in 1..Len(iActions) :
                 iActions[i].description \in
                     {CleanText(iSteps[i].content), iSteps[i].content}

\* C1 restricted to the loops of execute_test_background and
\* handle_test_execution, which do append one action per step.
C1_ServerAndMainOneActionPerStep ==
    (iImpl \in {"server", "main"})
        => /\ Len(iActions) = Len(iSteps)
           /\ \A i \in 1..Len(iActions) :
                 iActions[i].description = CleanText(iSteps[i].content)

\* C2: in the rule-based loop of the server (and of the CLI), a step with a
\* navigation keyword and no URL yields a wait action, and no navigate action
\* carries an empty url.
C2_NoNavigateWithoutUrl ==
    (iImpl \in {"server", "main"})
        => \A i \in 1..Len(iActions) :
              /\ iActions[i].action = "navigate" => iActions[i].params.url # NoUrl
              /\ (i <= Len(iSteps) /\ NavKeywordInText(iSteps[i]) /\ NoUrlInStep(iSteps[i]))
                    => iActions[i].action = "wait"

\* C2 witness: a navigation step whose only link has an empty target was
\* interpreted by the server loop as a wait.
C2_Witness ==
    /\ iImpl = "server" /\ iSteps # <<>> /\ Len(iActions) = Len(iSteps)
    /\ iSteps[Len(iSteps)].content = <<Word("Navigate"), Anchor(NoUrl)>>
    /\ iActions[Len(iActions)].action = "wait"

\* C3: within one pass base_url, once set, is never changed by a later step.
C3_BaseUrlSetOnce ==
    [][(iPc = "loop" /\ iBaseUrl # NoUrl) => iBaseUrl' = iBaseUrl]_vars

\* C3 witness: base_url is set and the last action is an absolute navigation
\* to a different host, on the rule-based and on the AI path.
C3_Witness ==
    /\ iImpl = "server" /\ iBaseUrl # NoUrl /\ Len(iActions) >= 2
    /\ iActions[Len(iActions)].action = "navigate"
    /\ BaseMatch(iActions[Len(iActions)].params.url) \notin {NoUrl, iBaseUrl}

\* the same case on the AI path
C3_WitnessAI ==
    /\ iImpl = "ai" /\ iBaseUrl # NoUrl /\ Len(iActions) >= 2
    /\ iActions[Len(iActions)].action = "navigate"
    /\ Has(iActions[Len(iActions)], "params")
    /\ Has(iActions[Len(iActions)].params, "url")
    /\ BaseMatch(iActions[Len(iActions)].params.url) \notin {NoUrl, iBaseUrl}


(***************************************************************************)
(* Claims about the validation oracle (SpecValidate)                       *)
(***************************************************************************)
ValDone == vPc = "done"
ValReturned == ValDone /\ ~vOut.raised
\* the expected text with its markup removed, before any trimming
ExpectedText == JoinSpace(DataChunks(vExpected))
AICallFailed == vRsp.kind \in {"call_error", "not_json", "not_object"}

\* C4: validating an empty or whitespace-only expected result returns
\* passed=true with confidence 1.0 and issues no AI request, whatever the page
\* content (a string) and whether the provider is enabled or not.
C4_BlankExpectedAlwaysPasses ==
    (ValDone /\ vPage # None /\ Strip(ExpectedText) = <<>> /\ TagFree(vExpected))
        => /\ ~vOut.raised
           /\ Has(vOut.ret, "passed") /\ vOut.ret.passed
           /\ Has(vOut.ret, "confidence") /\ vOut.ret.confidence = ConfFull
           /\ vOut.ai_calls = 0

\* C5 as stated: with the provider disabled, passed is true exactly when the
\* lower-cased expected text is a substring of the lower-cased page content.
C5_Original ==
    (ValReturned /\ ~vEnabled /\ vPage # None)
        => (vOut.ret.passed <=> Contains(Lower(ExpectedText), Lower(vPage)))

\* C5 amended: with the provider disabled, passed is true exactly when the
\* lower-cased expected text, with leading and trailing whitespace removed, is
\* a substring of the lower-cased page content.
C5_TrimmedCaseInsensitiveContainment ==
    (ValReturned /\ ~vEnabled /\ vPage # None)
        => (vOut.ret.passed <=> Contains(Lower(Strip(ExpectedText)), Lower(vPage)))

\* C5 witness: a disabled-provider call of the AI interpreter's oracle whose
\* expected text has upper-case letters and trailing whitespace, and passes.
C5_Witness ==
    /\ ValReturned /\ ~vEnabled /\ vImpl = "ai_interpreter" /\ vPage # None
    /\ Lower(ExpectedText) # ExpectedText
    /\ Strip(ExpectedText) # ExpectedText
    /\ Strip(vPage) # vPage
    /\ vOut.ret.passed

\* C6: every fallback (substring) result, reached because the provider is
\* disabled or because the AI call failed, reports confidence 0.5 when the
\* expected text was found and 0.3 when it was not.
C6_FallbackConfidence ==
    (ValReturned /\ vPage # None /\ (~vEnabled \/ AICallFailed)
     /\ (vImpl = "validation_service" => RawNonBlank(vExpected)))
        => vOut.ret.confidence = (IF vOut.ret.passed THEN ConfFound ELSE ConfNotFound)

\* C7: the oracle never raises and always returns a result carrying passed,
\* confidence and message, for every AI outcome (here for string page content).
C7_AlwaysReturnsValidationResult ==
    (ValDone /\ vPage # None)
        => /\ ~vOut.raised
           /\ {"passed", "confidence", "message"} \subseteq DOMAIN vOut.ret

\* C7 for the page content a get_text result may carry (text_content() is None).
C7_NoRaiseOnAnyPageContent == ValDone => ~vOut.raised

(***************************************************************************)
(* Claims about the browser session (SpecHandler)                          *)
(***************************************************************************)
Initialised(s) ==
    /\ s.playwright # 0 /\ s.browser # 0 /\ s.context # 0 /\ s.page # 0
    /\ s.screenshot_dir
InitOk ==
    initialize_browser(hCall.before, Get(hCall.params, "headless", TRUE), hCall.env.init).ok
NavigateWithUrl == hCall.action = "navigate" /\ HasUrl(hCall.params) /\ InitOk
BothWaitsFailed == hCall.env.goto # "ok" /\ hCall.env.load_state # "ok"
RestCompleted ==
    hCall.env.delay = "ok" /\ hCall.env.screenshot = "ok" /\ hCall.env.title = "ok"

RequiredParams(action) ==
    CASE action = "navigate" -> {"url"}
      [] action = "click" -> {"selector", "text"}
      [] action \in {"fill", "type", "hover"} -> {"selector"}
      [] action = "select" -> {"selector", "value"}
      [] action = "press_key" -> {"key"}
      [] OTHER -> {}
Given(params, k) == IF k = "url" THEN HasUrl(params) ELSE HasStr(params, k)
NotGiven(action, params) == {k \in RequiredParams(action) : ~Given(params, k)}
RequiredMissing(action, params) ==
    IF action = "click" THEN NotGiven(action, params) = RequiredParams(action)
    ELSE NotGiven(action, params) # {}

C9_WitnessFollowing ==
    /\ hCall.follows_param_error
    /\ hCall.action = "click" /\ Succeeded(hCall.result)

(***************************************************************************)
(* Claims about the orchestrator (SpecRun)                                 *)
(***************************************************************************)
RowsMatchActions(n) ==
    /\ Len(rStepRows) = n
    /\ \A i \in 1..n :
          /\ rStepRows[i].step_number = i
          /\ rStepRows[i].action_type = Get(rActions[i], "action", None)

\* C10: while the run executes, the steps recorded are those of the actions
\* gone through so far, one per action and in order, whatever their status;
\* a run that completes has gone through every interpreted action and has
\* recorded exactly one step per action.
C10_FailedStepDoesNotStopRun ==
    /\ rPc = "executing" => (rIdx <= Len(rActions) /\ RowsMatchActions(rIdx))
    /\ rPc = "complete" => (rIdx = Len(rActions) /\ RowsMatchActions(Len(rActions)))

C10_Witness ==
    /\ rPc = "complete" /\ Len(rActions) >= 2
    /\ rStepRows[1].status = "FAILED"
    /\ rStepRows[1].screenshot_path = NoPath
    /\ rStepRows[1].action_type = "fill"
    /\ rStepRows[2].status = "PASSED"

C10_WitnessValidation ==
    /\ rPc = "complete" /\ Len(rActions) >= 2
    /\ rStepRows[1].status = "FAILED" /\ rStepRows[1].error_message # ""

(***************************************************************************)
(* Claims about step and run status (SpecRun)                              *)
(***************************************************************************)
\* the last iteration of the execution loop created its step row
LastRowRecorded == rStepRows # <<>> /\ rLast.raised \in {"none", "create_screenshot"}
LastAction == rActions[Len(rStepRows)]
LastRow == rStepRows[Len(rStepRows)]
HasExpected(action) == RawNonBlank(Get(action, "expected", <<>>))

\* C11: the recorded status of an executed action is PASSED exactly when the
\* action has a non-blank expected result and the validation passed, or it has
\* no expected result and the execution result reports success; it is FAILED
\* in every other case.
C11_StepStatusRule ==
    LastRowRecorded =>
        /\ rLast.has_validation = HasExpected(LastAction)
        /\ LastRow.status =
              IF \/ HasExpected(LastAction) /\ rLast.validation_passed
                 \/ ~HasExpected(LastAction) /\ rLast.success
              THEN "PASSED" ELSE "FAILED"

\* a step whose action failed and whose validation passed is recorded PASSED
C11_Witness ==
    /\ LastRowRecorded /\ HasExpected(LastAction)
    /\ rLast.validation_passed /\ ~rLast.success /\ LastRow.status = "PASSED"

\* a step whose action succeeded and whose validation failed is recorded FAILED
C11_WitnessFailed ==
    /\ LastRowRecorded /\ HasExpected(LastAction)
    /\ ~rLast.validation_passed /\ rLast.success /\ LastRow.status = "FAILED"

RowsWithStatus(status) == {i \in 1..Len(rStepRows) : rStepRows[i].status = status}

\* C12: a run that reaches COMPLETE has final status PASSED if and only if no
\* step of the run was recorded FAILED, and FAILED otherwise.
C12_FinalStatus ==
    rPc = "complete" =>
        rRun.status = IF RowsWithStatus("FAILED") = {} THEN "PASSED" ELSE "FAILED"

\* a completed run with a passed and a failed step is FAILED
C12_Witness ==
    /\ rPc = "complete" /\ rRun.status = "FAILED"
    /\ RowsWithStatus("PASSED") # {} /\ RowsWithStatus("FAILED") # {}

C12_WitnessPassed ==
    rPc = "complete" /\ rRun.status = "PASSED" /\ Len(rStepRows) = 2

\* C13: when a run reaches COMPLETE the persisted run record holds
\* total_steps, passed_steps and failed_steps equal to the number of executed
\* actions, of PASSED steps and of FAILED steps.
C13_PersistedCounts ==
    rPc = "complete" =>
        /\ rRun.total_steps = Len(rStepRows)
        /\ rRun.passed_steps = Cardinality(RowsWithStatus("PASSED"))
        /\ rRun.failed_steps = Cardinality(RowsWithStatus("FAILED"))
        /\ rRun.passed_steps + rRun.failed_steps = rRun.total_steps

(***************************************************************************)
(* Claims about fetching and the error path (SpecRun)                      *)
(***************************************************************************)
FetchFailed == rFetch = NoResponse \/ Has(rFetch, "error")

\* C14: when the test-case source reports an error or returns nothing, the
\* orchestrator makes up a single placeholder step and goes on to interpret
\* and execute it instead of aborting the run.
C14_FetchErrorGetsPlaceholder ==
    FetchFailed => (rSteps = <<DummyStep>> /\ rCause # "get_test_case")

ZeroSteps ==
    /\ rFetch # NotFetched /\ ~FetchFailed
    /\ StepsOf(TestCaseOf(rFetch)) = <<>>

\* the calls of collaborators whose failure reaches the except clause: the
\* persistence calls and an answer of the AI provider without params
CollaboratorFailures ==
    {"update_test_run", "create_test_step", "create_screenshot", "update_daily_metrics",
     "interpret_multiple_steps"}

C16_ErrorOutcome ==
    rCause # "none" =>
        /\ rPc \in {"error", "crashed"}
        /\ rRun.status = "FAILED" /\ rRun.end_time
        /\ rProgress[Len(rProgress)] = ErrorProgress(rCause)

TaskEnded == rPc \in {"complete", "error", "crashed"}

\* C17: every run that is started ends in a terminal status: once the task of
\* a run created as RUNNING has ended, whichever call failed, the persisted
\* status is PASSED or FAILED.
C17_EndedRunHasTerminalStatus ==
    TaskEnded => rRun.status \in {"PASSED", "FAILED"}

(***************************************************************************)
(* Claims about the AI strategy (SpecRun)                                  *)
(***************************************************************************)
\* the action was produced by interpret_multiple_steps
AIMade(action) == Has(action, "original_step")
Interpreted == rPc \in {"executing", "complete"} \/ rActions # <<>>

\* C18: the action list of a run comes from one strategy: all of it from the
\* AI pass over all the steps, or all of it from the rule-based pass, the
\* latter only when the AI interpreter is disabled (an enabled AI pass over a
\* non-empty step list always yields actions).
C18_OneStrategy ==
    Interpreted =>
        /\ \/ \A i \in 1..Len(rActions) : AIMade(rActions[i])
           \/ \A i \in 1..Len(rActions) : ~AIMade(rActions[i])
        /\ rEnabled => (/\ Len(rActions) = Len(rSteps)
                        /\ \A i \in 1..Len(rActions) :
                              /\ AIMade(rActions[i])
                              /\ rActions[i].original_step = rSteps[i].content)
        /\ ~rEnabled => \A i \in 1..Len(rActions) : ~AIMade(rActions[i])

\* an AI-interpreted list whose second action is the fallback wait action
C18_Witness ==
    /\ Interpreted /\ rEnabled /\ Len(rActions) = 2
    /\ rActions[1].confidence # 0 /\ rActions[2].confidence = 0

\* C19: on the AI path a failed or malformed interpretation of a step gives
\* the fallback wait action at that step's position and the pass goes on, so
\* the pass never aborts the run and yields one action per step.
C19_AIPathNeverAborts ==
    /\ rCause # "interpret_multiple_steps"
    /\ (rEnabled /\ rPc \notin {"start", "fetched"} /\ ~FetchFailed
           /\ rCause # "update_test_run") => Len(rActions) = Len(rSteps)

\* C20: without credentials the interpreter is disabled, and a disabled
\* interpreter sends no request to the AI provider during a run: the actions
\* are the rule-based ones, expected results are judged by the substring
\* match, and no exception comes from the AI path.
C20_DisabledUsesNoAI ==
    /\ rApiKey = NoKey => ~rEnabled
    /\ ~rEnabled =>
          /\ rAICalls = 0
          /\ \A i \in 1..Len(rActions) : ~AIMade(rActions[i])
          /\ rCause # "interpret_multiple_steps"
          /\ (LastRowRecorded /\ rLast.has_validation) =>
                rLast.reasoning = "Rule-based validation (simple substring match)"

\* a run without credentials that validated a step and completed PASSED
C20_Witness ==
    /\ rApiKey = NoKey /\ rPc = "complete" /\ rRun.status = "PASSED"
    /\ rLast.has_validation /\ rAICalls = 0

\* C27: within a run the actions are processed strictly in list order, one at
\* a time: an iteration begins only when every earlier action has been
\* executed, judged and recorded; it executes the action that follows them in
\* the list and, unless it raises, records that action's step and moves on by
\* exactly one, so no action is reordered or skipped.
C27_StrictlySequential ==
    [][(rPc = "executing" /\ (hCall' # hCall \/ rStepRows' # rStepRows \/ rIdx' # rIdx)) =>
          /\ rIdx < Len(rActions)
          /\ Len(rStepRows) = rIdx
          /\ hCall'.action \in {Get(rActions[rIdx + 1], "action", None),
                                "get_page_content_for_validation", "get_text"}
          /\ \/ /\ rPc' \in {"error", "crashed"}
                /\ rIdx' = rIdx
                /\ Len(rStepRows') \in {rIdx, rIdx + 1}
             \/ /\ rPc' = "executing"
                /\ rIdx' = rIdx + 1
                /\ Len(rStepRows') = rIdx + 1
                /\ SubSeq(rStepRows', 1, rIdx) = rStepRows
                /\ rStepRows'[rIdx + 1].step_number = rIdx + 1
                /\ rStepRows'[rIdx + 1].action_type =
                      Get(rActions[rIdx + 1], "action", None)]_vars

\* a run that went through two actions of different kinds, in list order
C27_Witness ==
    /\ rIdx = 2 /\ Len(rStepRows) = 2
    /\ Get(rActions[1], "action", None) # Get(rActions[2], "action", None)
    /\ rStepRows[1].action_type = Get(rActions[1], "action", None)
    /\ rStepRows[2].action_type = Get(rActions[2], "action", None)

PersistenceCalls == {"update_test_run", "create_test_step", "create_screenshot"}

\* C29: a failure of a persistence call made during a run (update_test_run,
\* create_test_step, create_screenshot) is not propagated as a run failure:
\* no exception of these calls reaches the except clause of the run.
C29_PersistenceFailureNotPropagated ==
    rCause \notin PersistenceCalls

\* what agent.handle("playwright", ...) returned is a result: a success, or a
\* failure carrying its error
IsResult(result) ==
    \/ Succeeded(result)
    \/ Has(result, "error") /\ ~Has(result, "success")

\* C30: a browser action that fails is reported to the orchestrator as a
\* failure result and never as an exception: every call of the run returns a
\* result, whatever the action and its parameters; a run that took the error
\* path did so for a call other than a browser action; and a step whose
\* action failed is recorded, as FAILED when it has no expected result.
C30_ActionFailureIsAResult ==
    /\ hCall.action # "none" => IsResult(hCall.result)
    /\ rPc \in {"error", "crashed"} =>
          rCause \in {"get_test_case", "interpret_multiple_steps",
                      "validate_expected_result", "update_daily_metrics"}
                     \cup PersistenceCalls
    /\ (LastRowRecorded /\ ~rLast.success /\ ~rLast.has_validation) =>
          LastRow.status = "FAILED"

\* a completed run whose last action raised, the error screenshot raising too
C30_Witness ==
    /\ rPc = "complete" /\ hCall.escaped /\ ~rLast.success
    /\ LastRow.status = "FAILED" /\ rCause = "none"

(***************************************************************************)
(* Claims about the session life cycle (SpecHandler)                       *)
(***************************************************************************)
\* C21: initialising a session that is already initialised creates no second
\* engine handle, browser, context or page: every resource the session held
\* before a call is the one it holds after it, and nothing is created or
\* reconfigured on a fully initialised session, whatever headless setting the
\* call passes.
C21_InitializeIdempotent ==
    hCall.action \notin {"none", "close_browser"} =>
        /\ \A f \in ResourceFields :
              hCall.before[f] # 0 => hSession[f] = hCall.before[f]
        /\ hCall.before.browser # 0 => hSession.is_headless = hCall.before.is_headless
        /\ Initialised(hCall.before) => hSession = hCall.before

\* a call passing headless = False on a session launched headless
C21_Witness ==
    /\ hCall.action = "wait" /\ Initialised(hCall.before)
    /\ Get(hCall.params, "headless", TRUE) = FALSE /\ hCall.before.is_headless
    /\ hSession.page = hCall.before.page /\ hSession.is_headless

\* C22: close releases page, context, browser and engine handle in that order
\* and leaves all four unset, from any state of the session (nothing, some or
\* all of the four present), also when releasing one of them fails.
C22_CloseReleasesEverything ==
    hCall.action = "close_browser" =>
        \A f \in ResourceFields : hSession[f] = 0

\* the call went through an except clause of execute_action
OnExceptionPath ==
    /\ hCall.action # "none" /\ Has(hCall.result, "error")
    /\ hCall.result.error.text \in
          {"Timeout error during action", "Error during action", "Playwright execution error"}
PageOpen(s) == s.page # 0 /\ s.screenshot_dir
LastCall(trace) == IF trace = <<>> THEN Call("none", 0) ELSE trace[Len(trace)]

C23_WitnessError ==
    /\ OnExceptionPath /\ hCall.action = "fill" /\ hCall.env.primitive = "error"
    /\ ~hCall.escaped /\ hCall.result.screenshot = <<<<"error", "fill">>>>

(***************************************************************************)
(* Claims about the end of a run (SpecLifecycle)                           *)
(***************************************************************************)
SessionClosed(s) == \A f \in ResourceFields : s[f] = 0

\* C24: the browser session used by a run is released when the run ends: once
\* the run has ended (completed, errored or cancelled) and the process has
\* shut down, page, context, browser and engine handle are all closed.
C24_SessionReleasedAtShutdown ==
    rPc = "shutdown" => SessionClosed(hSession)

\* C25: a run task cancelled at a suspension point is persisted like an
\* errored run: its row has an end time and the status FAILED.
C25_CancelledRunIsFailed ==
    rPc = "cancelled" => rRun.status = "FAILED" /\ rRun.end_time

(***************************************************************************)
(* Claims about concurrent runs (SpecShared)                               *)
(***************************************************************************)
\* C26: two concurrent runs never use the browser session without exclusion:
\* every validation snapshot a run takes reads the page as that run's own
\* action left it, no action of the other run having executed on the page in
\* between.
C26_SnapshotSeesOwnAction ==
    \A run \in Runs :
        \A i \in 1..Len(sSeen[run]) : sSeen[run][i] = <<run, i>>

(***************************************************************************)
(* Claims about the progress broadcast (SpecBroadcast)                     *)
(***************************************************************************)
BroadcastReturned == bPc = "idle" /\ bCount > 0

\* C28: a broadcast attempts delivery to every connected observer, whatever
\* happens to the delivery to the others, also when observers connect or
\* disconnect while it is suspended in a send: when it returns, send_json has
\* been called on every observer that stayed connected from its beginning to
\* its end.
C28_EveryObserverAttempted ==
    BroadcastReturned => bPresent \subseteq bAttempted

(***************************************************************************)
(* Claims about the order of the Playwright calls of an action             *)
(* (SpecHandler)                                                           *)
(***************************************************************************)
IsWait(c) == c.op \in {"goto", "wait_for_load_state", "wait_for_timeout"}
Positions(trace, c) == {i \in 1..Len(trace) : trace[i] = c}
ScreenshotCalls(trace) == {i \in 1..Len(trace) : trace[i].op = "screenshot"}
\* a tier fails when its wait or the settle delay that follows it raises
Tier1Failed == hCall.env.goto # "ok" \/ hCall.env.delay # "ok"
Tier2Failed == hCall.env.load_state # "ok" \/ hCall.env.delay # "ok"

C31_WitnessDom ==
    /\ NavigateWithUrl /\ hCall.env.goto = "timeout" /\ hCall.env.load_state = "ok"
    /\ Succeeded(hCall.result)
    /\ Positions(hCall.trace, Call("wait_for_timeout", FixedDelay)) = {}

\* a navigation that ended at the network-idle tier
C31_WitnessNetworkIdle ==
    /\ NavigateWithUrl /\ ~Tier1Failed /\ Succeeded(hCall.result)
    /\ Len(hCall.trace) = 4

SettleActions == {"click", "fill", "type", "select", "hover", "press_key"}

\* C32: for click, fill, type, select, hover and press_key the primitive
\* executes, then a settle wait occurs, then the screenshot is captured: the
\* call before the screenshot of a successful action is a wait, never the
\* primitive itself.
C32_SettleBeforeScreenshot ==
    (hCall.action \in SettleActions /\ Succeeded(hCall.result)) =>
        \E i \in ScreenshotCalls(hCall.trace) : i > 1 /\ IsWait(hCall.trace[i - 1])

(***************************************************************************)
(* Claims about the log buffer (SpecLogs)                                  *)
(***************************************************************************)
\* C33: the log buffer is append-only: under any sequence of actions and
\* page events, and whatever the caller of get_logs does with the list it was
\* given, no step makes the buffer shorter or changes an entry it holds.
C33_LogBufferAppendOnly ==
    [][/\ Len(logs') >= Len(logs)
       /\ \A i \in 1..Len(logs) : lObjects'[logs'[i]] = lObjects[logs[i]]]_vars

(***************************************************************************)
(* Claims about the rows of a run (SpecRun)                                *)
(***************************************************************************)
ShotsOf(n) == {i \in 1..Len(rShotRows) : rShotRows[i].step_number = n}
\* the Screenshot insert of the last step row raised
ScreenshotInsertRaised(j) == j = Len(rStepRows) /\ rCause = "create_screenshot"

\* C37: for every executed action the step row is made first, and a
\* screenshot row is made exactly when the result of the action carries a
\* non-empty screenshot path (unless the insert of that row itself raises,
\* which ends the run): every screenshot row names a step row that exists and
\* carries its path, a step without a path has no screenshot row, a step
\* with a path has exactly one, and while the loop runs every finished
\* iteration has its step row.
C37_StepThenScreenshot ==
    /\ \A i \in 1..Len(rShotRows) :
          /\ rShotRows[i].file_path # NoPath
          /\ \E j \in 1..Len(rStepRows) :
                /\ rStepRows[j].step_number = rShotRows[i].step_number
                /\ rStepRows[j].screenshot_path = rShotRows[i].file_path
    /\ \A j \in 1..Len(rStepRows) :
          Cardinality(ShotsOf(rStepRows[j].step_number)) =
              IF rStepRows[j].screenshot_path = NoPath \/ ScreenshotInsertRaised(j)
              THEN 0 ELSE 1
    /\ rPc = "executing" => Len(rStepRows) = rIdx
    /\ (LastRowRecorded /\ ~rLast.has_validation) =>
          LastRow.screenshot_path = Get(hCall.result, "screenshot", NoPath)

\* a run with one step that has a screenshot row and one that has none
C37_Witness ==
    /\ Len(rStepRows) = 2 /\ Len(rShotRows) = 1 /\ rCause = "none"
    /\ \E j \in 1..2 : rStepRows[j].screenshot_path = NoPath

\* the step row is there and the screenshot insert raised
C37_WitnessInsertRaised ==
    /\ rCause = "create_screenshot" /\ rStepRows # <<>>
    /\ LastRow.screenshot_path # NoPath
    /\ ShotsOf(LastRow.step_number) = {}

\* v = 60 + floor(i / n * 30), stated without a division
IsStepPercent(v, i, n) == n * (v - 60) <= 30 * i /\ 30 * i < n * (v - 60 + 1)
NonDecreasing(progress) ==
    \A i \in 1..Len(progress) - 1 : progress[i].percent <= progress[i + 1].percent

\* C38: every emitted percentage lies in 0..100; as long as no exception has
\* reached the except clause the percentages never decrease; a run that
\* completes without an exception has emitted fetching 20, ai_processing 40
\* and 50, executing 60, then for each of its n actions, in order, one
\* executing event with 60 + floor((i+1)/n*30), which lies in 60..90, and
\* last complete 100.
C38_ProgressNeverDecreases ==
    /\ \A i \in 1..Len(rProgress) : rProgress[i].percent \in 0..100
    /\ rCause = "none" => NonDecreasing(rProgress)
    /\ (rPc = "complete" /\ rCause = "none") =>
          LET n == Len(rActions)
          IN /\ n >= 1
             /\ Len(rProgress) = n + 5
             /\ SubSeq(rProgress, 1, 4) =
                   <<Progress("fetching", 20), Progress("ai_processing", 40),
                     Progress("ai_processing", 50), Progress("executing", 60)>>
             /\ \A i \in 1..n :
                   /\ rProgress[4 + i].stage = "executing"
                   /\ IsStepPercent(rProgress[4 + i].percent, i, n)
                   /\ rProgress[4 + i].percent \in 60..90
             /\ rProgress[n + 5] = Progress("complete", 100)

\* a completed run of two actions: the first one was announced at 75
C38_Witness ==
    /\ rPc = "complete" /\ rCause = "none" /\ Len(rActions) = 2
    /\ rProgress[5].percent = 75 /\ rProgress[6].percent = 90

\* C39: while the loop runs, passed_steps + failed_steps is the number of
\* step rows made so far and the number of finished iterations, the passed
\* counter counts the rows with status PASSED, and the step numbers of the
\* rows are 1..k in order, without gap or duplicate; when the run is complete
\* the sum is the number of interpreted actions.
C39_CountersMatchRows ==
    /\ rPc \in {"executing", "complete"} =>
          /\ rPassed + rFailed = Len(rStepRows)
          /\ rPassed + rFailed = rIdx
          /\ rPassed = Cardinality({j \in 1..Len(rStepRows) : rStepRows[j].status = "PASSED"})
    /\ \A j \in 1..Len(rStepRows) : rStepRows[j].step_number = j
    /\ rPc = "complete" => rPassed + rFailed = Len(rActions)

\* in the middle of the loop: one row made, one action to go, one step failed
C39_Witness ==
    /\ rPc = "executing" /\ Len(rActions) = 2 /\ rIdx = 1
    /\ rFailed = 1 /\ rPassed = 0 /\ Len(rStepRows) = 1

\* a complete run of two actions, one passed and one failed
C39_WitnessComplete ==
    /\ rPc = "complete" /\ Len(rActions) = 2 /\ rPassed = 1 /\ rFailed = 1

IsPlaceholder(a) == AIMade(a) /\ a.action = "wait" /\ a.confidence = 0

\* C40: with the AI interpreter enabled the rule-based parsing is never used
\* for a run: no action of the run is a rule-based or default one, and once
\* interpret_multiple_steps has returned the list has one AI-made action per
\* step, in order, and is not empty, also when every call to the provider
\* failed and every action is the placeholder wait.
C40_EnabledNeverFallsBack ==
    rEnabled =>
        /\ \A i \in 1..Len(rActions) : AIMade(rActions[i])
        /\ rPc \in {"executing", "complete"} =>
              /\ Len(rActions) >= 1
              /\ Len(rActions) = Len(rSteps)
              /\ \A i \in 1..Len(rActions) :
                    /\ rActions[i].original_step = rSteps[i].content
                    /\ rActions[i].confidence = 0 => IsPlaceholder(rActions[i])

\* every call to the provider failed: two steps, two placeholders, no
\* rule-based action
C40_Witness ==
    /\ rEnabled /\ rPc = "executing" /\ Len(rSteps) = 2 /\ Len(rActions) = 2
    /\ \A i \in 1..2 : IsPlaceholder(rActions[i])

(***************************************************************************)
(* Claims about the rule-based rules (SpecInterp)                          *)
(***************************************************************************)
LastStep == iSteps[Len(iSteps)]
LastInterpreted == iActions[Len(iActions)]
\* the last step went through the rule-based loop of server.py or main.py
RuleStepDone == iImpl \in {"server", "main"} /\ iSteps # <<>>
First(S) == CHOOSE i \in S : \A j \in S : i <= j
\* the url the last step was resolved to: NoUrl when it gave no navigate
ResolvedUrl ==
    IF LastInterpreted.action = "navigate" THEN LastInterpreted.params.url ELSE NoUrl
AnchorsAt(c) == {i \in 1..Len(c) : c[i].kind = "a"}
AbsoluteAt(c) ==
    {i \in 1..Len(c) : c[i].url.scheme \in {"http", "https"}
                          /\ (c[i].url.host # "" \/ c[i].url.path # <<>>)}
RelativeAt(c) == {i \in 1..Len(c) : IsData(c[i]) /\ c[i].url.path # <<>>}

\* C35: for a rule-based navigation step the URL is resolved by strict
\* priority: the target of the first hyperlink when the step has one; else the
\* first absolute http(s) URL of the raw text; else the first /path of the
\* visible text, joined to base_url when base_url is set and used as it is
\* when it is not; a source is used only when every source before it is
\* absent, and with no source there is no URL.
C35_UrlPriority ==
    (RuleStepDone /\ NavKeywordInText(LastStep)) =>
        LET c == LastStep.content
            path == <<c[First(RelativeAt(c))].url.path[1]>>
        IN ResolvedUrl =
              IF AnchorsAt(c) # {} THEN c[First(AnchorsAt(c))].url
              ELSE IF AbsoluteAt(c) # {} THEN c[First(AbsoluteAt(c))].url
              ELSE IF RelativeAt(c) = {} THEN NoUrl
              ELSE IF iBaseUrl # NoUrl
                   THEN [iBaseUrl EXCEPT !.path = iBaseUrl.path \o path]
              ELSE [NoUrl EXCEPT !.path = path]

\* a step with a URL in its text and a hyperlink after it: the link decides
C35_Witness ==
    /\ RuleStepDone
    /\ LastStep.content = <<Word("Navigate"), UrlWord(UrlA), Anchor(UrlB)>>
    /\ ResolvedUrl = UrlB

\* a relative path before an absolute URL: the absolute URL decides
C35_WitnessAbsolute ==
    /\ RuleStepDone
    /\ LastStep.content = <<Word("Navigate"), UrlWord(UrlRel), UrlWord(UrlA)>>
    /\ ResolvedUrl = UrlA

\* a relative path joined to the base_url an earlier step set
C35_WitnessJoined ==
    /\ RuleStepDone /\ iBaseUrl # NoUrl
    /\ LastStep.content = <<Word("Navigate"), UrlWord(UrlRel)>>
    /\ ResolvedUrl = [iBaseUrl EXCEPT !.path = <<"abp">>]

QuotedAt(c) == {i \in 1..Len(c) : c[i].kind = "quoted"}
ClickKeywordInText(step) ==
    \E i \in 1..Len(step.content) :
        /\ step.content[i].kind = "word"
        /\ step.content[i].text \in {"Click", "Select"}
IsWaitAction(a) == a.action = "wait" /\ a.params = [timeout |-> 1000]

\* C36: the rule-based rules look at the intents in a fixed order: a step
\* with a navigation keyword is handled as navigation (a navigate or, with
\* no URL, a wait) even when it also holds click or select; otherwise a step
\* with click or select gives a click on the text of its first quoted
\* phrase, or a 1000 ms wait when it has none; every other step gives a
\* 1000 ms wait.
C36_IntentOrder ==
    RuleStepDone =>
        LET c == LastStep.content
            a == LastInterpreted
        IN IF NavKeywordInText(LastStep)
           THEN a.action = "navigate" \/ IsWaitAction(a)
           ELSE IF ClickKeywordInText(LastStep)
                THEN IF QuotedAt(c) # {}
                     THEN /\ a.action = "click"
                          /\ a.params = [text |-> c[First(QuotedAt(c))].text]
                     ELSE IsWaitAction(a)
           ELSE IsWaitAction(a)

\* the part of C36 about the order of the intents alone
IntentOrderAlone ==
    RuleStepDone =>
        LET a == LastInterpreted
        IN IF NavKeywordInText(LastStep)
           THEN a.action = "navigate" \/ IsWaitAction(a)
           ELSE IF ClickKeywordInText(LastStep)
                THEN a.action = "click" \/ IsWaitAction(a)
           ELSE IsWaitAction(a)

(***************************************************************************)
(* Claims about the step list of a test case (SpecSteps)                   *)
(***************************************************************************)
Holds(test_case, k) == Has(test_case, k) /\ test_case[k] # <<>>
FirstAmong(P(_), i) == P(StepAliases[i]) /\ \A j \in 1..(i - 1) : ~P(StepAliases[j])
IsKey(k) == Has(fCase, k)
HoldsSteps(k) == Holds(fCase, k)

\* C34, as stated: the step list is the value of the first alias that is
\* present as a key of the test case, whatever it holds, and the empty
\* sequence when none is present.
C34_FirstPresentAlias ==
    fSteps.picked =>
        /\ \A i \in 1..Len(StepAliases) :
              FirstAmong(IsKey, i) => fSteps.steps = fCase[StepAliases[i]]
        /\ (\A i \in 1..Len(StepAliases) : ~IsKey(StepAliases[i])) => fSteps.steps = <<>>

\* C34, amended: the step list is the value of the first alias, in the order
\* custom_steps_separated, custom_steps, steps, that holds a non-empty list,
\* even when a later alias also holds steps; it is the empty sequence when no
\* alias holds a non-empty list.
C34_FirstNonEmptyAlias ==
    fSteps.picked =>
        /\ \A i \in 1..Len(StepAliases) :
              FirstAmong(HoldsSteps, i) => fSteps.steps = fCase[StepAliases[i]]
        /\ (\A i \in 1..Len(StepAliases) : ~HoldsSteps(StepAliases[i])) =>
              fSteps.steps = <<>>

\* two aliases hold different steps and the earlier one decides
C34_Witness ==
    /\ fSteps.picked
    /\ Holds(fCase, "custom_steps_separated") /\ Holds(fCase, "steps")
    /\ fCase.custom_steps_separated # fCase.steps
    /\ fSteps.steps = fCase.custom_steps_separated

\* an earlier alias is present and empty, and a later one decides
C34_WitnessEmptyAlias ==
    /\ fSteps.picked
    /\ Has(fCase, "custom_steps_separated") /\ fCase.custom_steps_separated = <<>>
    /\ Holds(fCase, "steps") /\ fSteps.steps = fCase.steps

====
